---- MODULE Spec2Model ----
(***************************************************************************)
(* Adversary squadron (src/src/enemy.ts), player (src/src/controls.ts) and *)
(* wave orchestration (src/src/main.ts) of the arcade space-combat game.   *)
(*                                                                         *)
(* Time is in milliseconds, and every timestamp (lastShot, the due time of *)
(* a timeout) is kept relative to the current instant, performance.now():  *)
(* the code only ever compares differences of timestamps.  A timestamp     *)
(* older than Horizon is kept as -Horizon.  Each browser task (an          *)
(* animation frame, a timer callback, a click) is one action: the prefabs  *)
(* are loaded before the game can start, so the continuation of every      *)
(* `await` below runs in microtasks of the same task.                      *)
(***************************************************************************)
EXTENDS Integers, Sequences, FiniteSets, TLC

(***************************************************************************)
(* IEEE-754 binary64 arithmetic on the values approachProgress takes.      *)
(* A number x in [2^-7, 4) is the triple <<h, m, l>> of base-2^20 limbs,   *)
(* x = (h*2^40 + m*2^20 + l) / 2^60; every binary64 value in that range is *)
(* such a triple.  Results are rounded to 53 significant bits, ties to     *)
(* even, as the hardware does.                                             *)
(***************************************************************************)
Limb == 1048576

FZero == <<0, 0, 0>>

FOne == <<Limb, 0, 0>>

RECURSIVE Log2(_)
Log2(n) == IF n <= 1 THEN 0 ELSE 1 + Log2(n \div 2)

\* carries propagated so that the two low limbs are below 2^20
FNorm(x) ==
    LET l0 == x[3] % Limb
        c0 == x[3] \div Limb
        m0 == (x[2] + c0) % Limb
        c1 == (x[2] + c0) \div Limb
    IN  <<x[1] + c1, m0, l0>>

\* round an exact value (plus a sticky bit for what lies below 2^-60) to 53 bits
FRound(x, sticky) ==
    LET s == Log2(x[1]) - 12
    IN  IF x[1] = 0 \/ s <= 0 THEN x
        ELSE LET unit == 2 ^ s
                 half == unit \div 2
                 r    == x[3] % unit
                 base == x[3] - r
                 odd  == (x[3] \div unit) % 2 = 1
                 up   == \/ r > half
                         \/ r = half /\ (sticky \/ odd)
             IN  FNorm(<<x[1], x[2], IF up THEN base + unit ELSE base>>)

\* a + b
FAdd(a, b) == FRound(FNorm(<<a[1] + b[1], a[2] + b[2], a[3] + b[3]>>), FALSE)

\* a / n for a small positive integer n
FDiv(a, n) ==
    LET qh == a[1] \div n
        rh == a[1] % n
        qm == (rh * Limb + a[2]) \div n
        rm == (rh * Limb + a[2]) % n
        ql == (rm * Limb + a[3]) \div n
        rl == (rm * Limb + a[3]) % n
    IN  FRound(<<qh, qm, ql>>, rl # 0)

FLess(a, b) ==
    \/ a[1] < b[1]
    \/ a[1] = b[1] /\ a[2] < b[2]
    \/ a[1] = b[1] /\ a[2] = b[2] /\ a[3] < b[3]

FMin(a, b) == IF FLess(b, a) THEN b ELSE a

\* the binary64 value of ms/1000 seconds, exact for the multiples of 125 ms
FSeconds(ms) == <<(ms \div 125) * (Limb \div 8), 0, 0>>


(***************************************************************************)
(* Archetype registry and squadron constants.                              *)
(***************************************************************************)
Fighter == "fighter"

Interceptor == "interceptor"

EnemyType == {Fighter, Interceptor}

\* muzzleOffsets is the number of muzzle offsets; times are in ms
archetypes ==
    [t \in EnemyType |->
        IF t = Fighter
        THEN [muzzleOffsets |-> 2, bulletLife |-> 4000, fireDelayRange |-> <<800, 1350>>,
              health |-> 3, speedTarget |-> 170, maxSpeed |-> 230, maxAccel |-> 130,
              sizeTarget |-> 12]
        ELSE [muzzleOffsets |-> 4, bulletLife |-> 4000, fireDelayRange |-> <<700, 1200>>,
              health |-> 3, speedTarget |-> 204, maxSpeed |-> 276, maxAccel |-> 156,
              sizeTarget |-> 12]]

\* seconds to fly in from the destroyer
approachDuration == 3

\* 100 * the facing threshold 0.78 of tryShoot
AimThreshold == 78

\* PLAYER_CONFIG.maxHealth
maxHealth == 100

\* PlayerController.overboostBudgetMs
overboostBudgetMs == 8000

\* PlayerController.overboostCooldownMs
overboostCooldownMs == 10000

\* PLAYER_CONFIG.muzzleOffsets.length
PlayerMuzzles == 4

\* life of a player bullet, ms
PlayerBulletLife == 2000

\* minimum time between two player shots, ms
PlayerShotGap == 160

\* delay of the first-wave timer, ms
FirstWaveDelay == 5000

\* delay of the inter-wave timer, ms
NextWaveDelay == 10000

(***************************************************************************)
(* Bounds of the model.                                                    *)
(***************************************************************************)
\* a timestamp of the past is remembered this far back, ms: longer than every
\* fire delay and than the gap between two player shots
Horizon == 1500

\* frame times (clock.getDelta()), ms
Deltas == {500, 1000, 1500}

\* live adversary projectiles
MaxBullets == 4

\* the same in the game
MaxGameBullets == 2

\* the newest projectiles of a list that can hit, where every input is explored
MaxReach == 2

\* waves of the game in which the adversaries' projectiles reach the player
MaxHitWave == 1

\* live player projectiles
MaxPlayerBullets == 4

\* adversary projectiles within reach of the player in one hit pass
MaxNear == 2

\* asteroids that touch the player or an adversary in one frame
MaxContacts == 1

\* player projectiles that reach an asteroid in one frame
MaxAsteroidHits == 1

\* hits of either side in one tick where the passes are followed
MaxPassHits == 1

\* frame times where the squadron is under fire, ms
CombatDeltas == {1500}

\* compositions (fighters, interceptors) the squadron under fire is reset to
Compositions == {<<0, 0>>, <<2, 0>>, <<1, 1>>}

\* the same, where one adversary's clock is followed
Singles == {<<1, 0>>, <<0, 1>>}

\* frame times of the game, ms
GameDeltas == {1500}

\* overlapping (adversary, player projectile) pairs in one hit pass
MaxOverlaps == 2

\* the roots handed to destroyEnemyByRoot: 0 is an object that never was an
\* adversary, the others were or are adversaries
MaxRoot == 5

\* the size (x, y, z) of the box around the models the game ships
ModelSize == <<12, 6, 3>>

\* 100 * forward.dot(toPlayer) after updateOrientation
AimDots == {77, 78}

\* direction of desiredPos - position along the modelled axis
Dirs == {1}

\* the avoidance push along the modelled axis where nothing is near
NoPush == {0}

\* Math.random() * 600 at spawn, ms
ShotJitters == {0}

(***************************************************************************)
(* Helpers.                                                                *)
(***************************************************************************)
Max(a, b) == IF a >= b THEN a ELSE b

Min(a, b) == IF a <= b THEN a ELSE b

\* Vector3.clampLength(0, m) on the modelled axis
clampLength(v, m) == IF v > m THEN m ELSE IF v < -m THEN -m ELSE v

\* Array.prototype.splice(i, 1)
splice(seq, i) == [k \in 1..(Len(seq) - 1) |-> IF k < i THEN seq[k] ELSE seq[k + 1]]

Range(seq) == {seq[k] : k \in DOMAIN seq}

RECURSIVE SubsetsUpTo(_, _)
SubsetsUpTo(S, k) ==
    IF k = 0 THEN {{}}
    ELSE LET prev == SubsetsUpTo(S, k - 1)
         IN  prev \cup {T \cup {x} : T \in prev, x \in S}

Repeat(x, n) == [k \in 1..n |-> x]


(***************************************************************************)
(* State.  The operators below work on a record s of all the variables, so *)
(* that the callbacks main.ts passes into EnemySquadron.update can change  *)
(* the orchestrator's state in the middle of a squadron pass.              *)
(***************************************************************************)
VARIABLES
    enemies,          \* EnemySquadron.enemies, in list order
    bullets,          \* EnemySquadron.bullets
    fireEnabled,      \* EnemySquadron.fireEnabled
    active,           \* EnemySquadron.active
    playerHealth,     \* PlayerController.health
    playerDestroyed,  \* PlayerController.destroyed
    playerBullets,    \* PlayerController.bullets
    playerLastShot,   \* PlayerController.lastShot
    immortal,         \* main.ts immortal
    gameStarted,      \* main.ts gameStarted
    loopStarted,      \* main.ts loopStarted
    winPending,       \* main.ts winPending
    winTimer,         \* main.ts winTimer and the timeout it names
    firstWaveTimer,   \* main.ts firstWaveTimer and the timeout it names
    wave,             \* main.ts wave
    enemiesTotal,     \* main.ts enemiesTotal
    enemiesDestroyed, \* main.ts enemiesDestroyed
    resultShown,      \* text of the result modal, "" while it is hidden
    fireBtnActive,    \* the 'active' class of the enemy-fire toggle button
    prefabs,          \* this.prefabs: per archetype, whether its model is loaded
    assets,           \* environment: per archetype, whether its model file can be loaded
    trace,            \* history: the steps of the last EnemySquadron.update, in order
    calls,            \* history: the onEnemyDestroyed invocations of the last task
    exploded,         \* history: the adversaries destroyEnemy blew up in the last task
    hitCalls,         \* history: the number of onPlayerHit invocations of the last task
    models,           \* environment: per archetype, the size (x, y, z) of the box around the model its file holds
    prefabSize,       \* this.prefabs[type].size, <<0, 0, 0>> while there is no prefab
    inits,            \* the calls of init suspended at await this.ensurePrefabs(), oldest first
    defeatCalls,      \* history: the number of handlePlayerDestroyed invocations of the last task
    orphans,          \* history: the timeouts still pending that no variable of main.ts names any more
    overboostRemainingMs, \* PlayerController.overboostRemainingMs, ms
    overboostLockedUntil, \* PlayerController.overboostLockedUntil, 0 once it is past
    speedCall         \* history: input.boost and lockActive of the last task's updateSpeed call, FALSE if none

vars == <<enemies, bullets, fireEnabled, active, playerHealth, playerDestroyed,
          playerBullets, playerLastShot, immortal, gameStarted, loopStarted, winPending,
          winTimer, firstWaveTimer, wave, enemiesTotal, enemiesDestroyed, resultShown,
          fireBtnActive, prefabs, assets, trace, calls, exploded, hitCalls,
          models,
          prefabSize,
          inits,
          defeatCalls,
          orphans,
          overboostRemainingMs,
          overboostLockedUntil,
          speedCall>>

State ==
    [enemies |-> enemies, bullets |-> bullets, fireEnabled |-> fireEnabled,
     active |-> active, playerHealth |-> playerHealth, playerDestroyed |-> playerDestroyed,
     playerBullets |-> playerBullets, playerLastShot |-> playerLastShot,
     immortal |-> immortal, gameStarted |-> gameStarted, loopStarted |-> loopStarted,
     winPending |-> winPending, winTimer |-> winTimer, firstWaveTimer |-> firstWaveTimer,
     wave |-> wave, enemiesTotal |-> enemiesTotal, enemiesDestroyed |-> enemiesDestroyed,
     resultShown |-> resultShown, fireBtnActive |-> fireBtnActive,
     prefabs |-> prefabs, assets |-> assets, trace |-> trace,
     calls |-> calls, exploded |-> exploded, hitCalls |-> hitCalls,
     models |-> models,
     prefabSize |-> prefabSize,
     inits |-> inits,
     defeatCalls |-> defeatCalls,
     orphans |-> orphans,
     overboostRemainingMs |-> overboostRemainingMs,
     overboostLockedUntil |-> overboostLockedUntil,
     speedCall |-> speedCall]

Becomes(s) ==
    /\ enemies' = s.enemies
    /\ bullets' = s.bullets
    /\ fireEnabled' = s.fireEnabled
    /\ active' = s.active
    /\ playerHealth' = s.playerHealth
    /\ playerDestroyed' = s.playerDestroyed
    /\ playerBullets' = s.playerBullets
    /\ playerLastShot' = s.playerLastShot
    /\ immortal' = s.immortal
    /\ gameStarted' = s.gameStarted
    /\ loopStarted' = s.loopStarted
    /\ winPending' = s.winPending
    /\ winTimer' = s.winTimer
    /\ firstWaveTimer' = s.firstWaveTimer
    /\ wave' = s.wave
    /\ enemiesTotal' = s.enemiesTotal
    /\ enemiesDestroyed' = s.enemiesDestroyed
    /\ resultShown' = s.resultShown
    /\ fireBtnActive' = s.fireBtnActive
    /\ prefabs' = s.prefabs
    /\ assets' = s.assets
    /\ trace' = s.trace
    /\ calls' = s.calls
    /\ exploded' = s.exploded
    /\ hitCalls' = s.hitCalls
    /\ models' = s.models
    /\ prefabSize' = s.prefabSize
    /\ inits' = s.inits
    /\ defeatCalls' = s.defeatCalls
    /\ orphans' = s.orphans
    /\ overboostRemainingMs' = s.overboostRemainingMs
    /\ overboostLockedUntil' = s.overboostLockedUntil
    /\ speedCall' = s.speedCall

\* a timeout handle: set = the variable is not null, pending = not yet fired or cleared
Timeout(due, f, i) == [set |-> TRUE, pending |-> TRUE, due |-> due, fighters |-> f, interceptors |-> i]

Null == [set |-> FALSE, pending |-> FALSE, due |-> 0, fighters |-> 0, interceptors |-> 0]

\* a task of the event loop begins: the history of the previous one is dropped,
\* and every adversary is where and how the task finds it
NoSpeedCall == [boost |-> FALSE, lockActive |-> FALSE]

task(s) ==
    [s EXCEPT !.trace = <<>>, !.calls = <<>>, !.exploded = <<>>, !.hitCalls = 0,
              !.defeatCalls = 0, !.speedCall = NoSpeedCall,
              !.enemies = [k \in DOMAIN @ |-> [@[k] EXCEPT !.position = 0, !.orientation = 0]]]

\* an entry of trace: a step op of the squadron, on the adversary id (0: on none)
Ev(op, id) ==
    [op |-> op, id |-> id, fired |-> FALSE, aimDot |-> 0, approaching |-> FALSE, kept |-> TRUE]

(***************************************************************************)
(* PlayerController.                                                       *)
(***************************************************************************)
destroy(s) ==
    IF s.playerDestroyed THEN s
    ELSE [s EXCEPT !.playerDestroyed = TRUE, !.playerHealth = 0]

\* takeDamage without the early return for a destroyed player
takeDamageAgain(s, amount) ==
    LET s1 == [s EXCEPT !.playerHealth = Max(0, @ - amount)]
    IN  IF s1.playerHealth = 0 THEN <<destroy(s1), TRUE>> ELSE <<s1, FALSE>>

\* <<state, returned boolean>>
takeDamage(s, amount) ==
    IF s.playerDestroyed THEN <<s, FALSE>>
    ELSE LET s1 == [s EXCEPT !.playerHealth = Max(0, @ - amount)]
         IN  IF s1.playerHealth = 0 THEN <<destroy(s1), TRUE>> ELSE <<s1, FALSE>>

\* history: the health the player had when fullyHeal was called
noteHeal(s) == [s EXCEPT !.trace = Append(@, [op |-> "fullyHeal", health |-> s.playerHealth])]

fullyHeal(s) == [noteHeal(s) EXCEPT !.playerHealth = maxHealth]

\* updateSpeed refilling the reserve whether or not the cooldown has run out
updateSpeedRegenLocked(s, delta, boost) ==
    LET lockActive == s.overboostLockedUntil > 0
        canUseOverboost == s.overboostRemainingMs > 0 /\ ~lockActive
        s1 == [s EXCEPT !.speedCall = [boost |-> boost, lockActive |-> lockActive]]
    IN  IF boost /\ canUseOverboost
        THEN LET s2 == [s1 EXCEPT !.overboostRemainingMs = Max(0, @ - delta)]
             IN  IF s2.overboostRemainingMs = 0
                 THEN [s2 EXCEPT !.overboostLockedUntil = overboostCooldownMs]
                 ELSE s2
        ELSE IF boost /\ ~canUseOverboost THEN s1
        ELSE IF ~boost /\ s.overboostRemainingMs < overboostBudgetMs
        THEN [s1 EXCEPT !.overboostRemainingMs = Min(overboostBudgetMs, @ + delta)]
        ELSE s1

\* the reserve and the lock of updateSpeed (the speed itself is not modelled);
\* now < overboostLockedUntil is overboostLockedUntil > 0 on the relative clock
updateSpeed(s, delta, boost) ==
    LET lockActive == s.overboostLockedUntil > 0
        canUseOverboost == s.overboostRemainingMs > 0 /\ ~lockActive
        s1 == [s EXCEPT !.speedCall = [boost |-> boost, lockActive |-> lockActive]]
    IN  IF boost /\ canUseOverboost
        THEN LET s2 == [s1 EXCEPT !.overboostRemainingMs = Max(0, @ - delta)]
             IN  IF s2.overboostRemainingMs = 0
                 THEN [s2 EXCEPT !.overboostLockedUntil = overboostCooldownMs]
                 ELSE s2
        ELSE IF boost /\ ~canUseOverboost THEN s1
        ELSE IF ~boost /\ ~lockActive /\ s.overboostRemainingMs < overboostBudgetMs
        THEN [s1 EXCEPT !.overboostRemainingMs = Min(overboostBudgetMs, @ + delta)]
        ELSE s1

\* PlayerController.update: the model is loaded before the loop starts
playerUpdate(s, delta, boost) ==
    IF s.playerDestroyed THEN s ELSE updateSpeed(s, delta, boost)

playerReset(s) ==
    [s EXCEPT !.playerDestroyed = FALSE, !.playerHealth = maxHealth, !.playerBullets = <<>>]

\* the smallest n ids no bullet of the list carries
RECURSIVE FreshIds(_, _, _)
FreshIds(used, n, from) ==
    IF n = 0 THEN <<>>
    ELSE IF from \in used THEN FreshIds(used, n, from + 1)
    ELSE <<from>> \o FreshIds(used, n - 1, from + 1)

shoot(s) ==
    IF s.playerDestroyed THEN s
    ELSE IF 0 - s.playerLastShot < PlayerShotGap THEN s
    ELSE LET ids == FreshIds({b.id : b \in Range(s.playerBullets)}, PlayerMuzzles, 1)
         IN  [s EXCEPT !.playerLastShot = 0,
                       !.playerBullets = @ \o [k \in 1..PlayerMuzzles |->
                                                  [id |-> ids[k], life |-> PlayerBulletLife]]]

\* the pass walking the list from the front: after a removal the element that
\* moved into the freed index is passed over
expireForward(list, i, delta) ==
    LET RECURSIVE walk(_, _)
        walk(l, k) ==
            IF k > Len(l) THEN l
            ELSE LET life == l[k].life - delta
                 IN  IF life <= 0 THEN walk(splice(l, k), k + 1)
                     ELSE walk([l EXCEPT ![k].life = life], k + 1)
    IN  walk(list, 1)

\* expire keeping a projectile whose lifetime has just reached 0
RECURSIVE expireLate(_, _, _)
expireLate(list, i, delta) ==
    IF i < 1 THEN list
    ELSE LET life == list[i].life - delta
         IN  IF life < 0 THEN expireLate(splice(list, i), i - 1, delta)
             ELSE expireLate([list EXCEPT ![i].life = life], i - 1, delta)

RECURSIVE expire(_, _, _)
expire(list, i, delta) ==
    IF i < 1 THEN list
    ELSE LET life == list[i].life - delta
         IN  IF life <= 0 THEN expire(splice(list, i), i - 1, delta)
             ELSE expire([list EXCEPT ![i].life = life], i - 1, delta)

playerUpdateBullets(s, delta) ==
    [s EXCEPT !.playerBullets = expire(@, Len(@), delta)]

(***************************************************************************)
(* main.ts: result, timers and wave progression.                           *)
(***************************************************************************)
clearWinTimer(s) == IF s.winTimer.set THEN [s EXCEPT !.winTimer = Null] ELSE s

\* showResult leaving a pending first-wave timer alone
showResultKeepsTimer(s, text) ==
    [s EXCEPT !.resultShown = text, !.active = FALSE, !.fireEnabled = FALSE]

showResult(s, text) ==
    [s EXCEPT !.resultShown = text, !.active = FALSE, !.fireEnabled = FALSE,
              !.firstWaveTimer = IF @.set THEN Null ELSE @]

\* history: handlePlayerDestroyed is invoked
noteDefeat(s) == [s EXCEPT !.defeatCalls = @ + 1]

\* handlePlayerDestroyed that shows the result and stops the game but leaves the
\* squadron's fire switch alone
handlePlayerDestroyedFiring(s) ==
    [clearWinTimer([destroy(noteDefeat(s)) EXCEPT !.gameStarted = FALSE]) EXCEPT !.resultShown = "Przegrana"]

handlePlayerDestroyed(s) ==
    LET s1 == destroy(noteDefeat(s))
        s2 == [s1 EXCEPT !.fireEnabled = FALSE, !.gameStarted = FALSE]
    IN  showResult(clearWinTimer(s2), "Przegrana")

handleVictory(s) ==
    showResult(clearWinTimer([s EXCEPT !.winPending = FALSE]), "Zwyciestwo")

\* the timeout a variable is about to lose by an assignment: if it is still
\* pending it goes on counting with nothing left to clear it by
orphaned(tm) == IF tm.pending THEN 1 ELSE 0

scheduleNextWave(s, fighters, interceptors) ==
    LET s1 == clearWinTimer(s)
    IN  [s1 EXCEPT !.orphans = @ + orphaned(s1.winTimer),
                   !.winTimer = Timeout(NextWaveDelay, fighters, interceptors)]

\* advanceWave scheduling the composition of the wave just cleared
advanceWaveRepeats(s) ==
    CASE s.wave = 1 -> scheduleNextWave([s EXCEPT !.wave = 2], 1, 0)
      [] s.wave = 2 -> scheduleNextWave([s EXCEPT !.wave = 3], 2, 0)
      [] s.wave = 3 -> scheduleNextWave([s EXCEPT !.wave = 4], 3, 0)
      [] s.wave = 4 -> scheduleNextWave([s EXCEPT !.wave = 5], 2, 1)
      [] s.wave = 5 -> scheduleNextWave([s EXCEPT !.wave = 6], 3, 1)
      [] OTHER -> handleVictory(s)

\* advanceWave declaring victory one wave early, when wave 5 is cleared
advanceWaveShort(s) ==
    CASE s.wave = 1 -> scheduleNextWave([s EXCEPT !.wave = 2], 2, 0)
      [] s.wave = 2 -> scheduleNextWave([s EXCEPT !.wave = 3], 3, 0)
      [] s.wave = 3 -> scheduleNextWave([s EXCEPT !.wave = 4], 2, 1)
      [] s.wave = 4 -> scheduleNextWave([s EXCEPT !.wave = 5], 3, 1)
      [] OTHER -> handleVictory(s)

advanceWave(s) ==
    CASE s.wave = 1 -> scheduleNextWave([s EXCEPT !.wave = 2], 2, 0)
      [] s.wave = 2 -> scheduleNextWave([s EXCEPT !.wave = 3], 3, 0)
      [] s.wave = 3 -> scheduleNextWave([s EXCEPT !.wave = 4], 2, 1)
      [] s.wave = 4 -> scheduleNextWave([s EXCEPT !.wave = 5], 3, 1)
      [] s.wave = 5 -> scheduleNextWave([s EXCEPT !.wave = 6], 3, 2)
      [] OTHER -> handleVictory(s)

resetEnemyIcons(s) == [s EXCEPT !.enemiesTotal = Len(s.enemies), !.enemiesDestroyed = 0]

markEnemyDestroyed(s) ==
    IF s.enemiesTotal = 0 THEN s
    ELSE [s EXCEPT !.enemiesDestroyed = Min(@ + 1, s.enemiesTotal)]

\* history: onEnemyDestroyed is invoked with the archetype tag type, for the
\* adversary enemy that by ("hit", "asteroid", "debug") has just removed
noteDestroyed(s, type, enemy, by) ==
    [s EXCEPT !.calls = Append(@, [enemy |-> enemy, type |-> type, by |-> by])]

\* history: onPlayerHit is invoked
noteHit(s) == [s EXCEPT !.hitCalls = @ + 1]

\* onEnemyDestroyed without the check that the squadron is empty: every kill
\* advances the wave
onEnemyDestroyedEveryKill(s, type, enemy, by) ==
    LET s1 == markEnemyDestroyed(noteDestroyed(s, type, enemy, by))
    IN  IF ~s1.winPending /\ ~s1.playerDestroyed
        THEN advanceWave(s1) ELSE s1

\* onEnemyDestroyed without the check of player.isDestroyed(): clearing the
\* squadron advances the wave although the player is destroyed
onEnemyDestroyedAfterDefeat(s, type, enemy, by) ==
    LET s1 == markEnemyDestroyed(noteDestroyed(s, type, enemy, by))
    IN  IF Len(s1.enemies) = 0 /\ ~s1.winPending
        THEN advanceWave(s1) ELSE s1

onEnemyDestroyed(s, type, enemy, by) ==
    LET s1 == markEnemyDestroyed(noteDestroyed(s, type, enemy, by))
    IN  IF Len(s1.enemies) = 0 /\ ~s1.winPending /\ ~s1.playerDestroyed
        THEN advanceWave(s1) ELSE s1

\* onPlayerHit without the check of immortal
onPlayerHitMortal(s) ==
    LET s1 == noteHit(s)
        r == takeDamage(s1, maxHealth \div 20)
    IN  IF r[2] THEN handlePlayerDestroyed(r[1]) ELSE r[1]

onPlayerHit(s) ==
    LET s1 == noteHit(s)
    IN  IF s1.immortal THEN s1
        ELSE LET r == takeDamage(s1, maxHealth \div 20)
             IN  IF r[2] THEN handlePlayerDestroyed(r[1]) ELSE r[1]

\* the callbacks EnemySquadron.update is given: those of main.ts, or callbacks that
\* leave the state alone
Main == "main"

Probe == "probe"

invokeOnPlayerHit(s, on) == IF on = Main THEN onPlayerHit(s) ELSE noteHit(s)

invokeOnEnemyDestroyed(s, on, type, enemy, by) ==
    IF on = Main THEN onEnemyDestroyed(s, type, enemy, by) ELSE noteDestroyed(s, type, enemy, by)


(***************************************************************************)
(* EnemySquadron.                                                          *)
(***************************************************************************)
buildSpawnList(fighters, interceptors) == Repeat(Fighter, fighters) \o Repeat(Interceptor, interceptors)

\* size.multiplyScalar(scale) of loadPrefabForType, for a model whose box has this
\* size: the sizes followed are those the scale sizeTarget / maxDim maps to whole
\* numbers without rounding
scaledSize(type, size) ==
    LET maxDim == Max(size[1], Max(size[2], size[3]))
    IN  IF maxDim > 0
        THEN [k \in 1..3 |-> (size[k] * archetypes[type].sizeTarget) \div maxDim]
        ELSE size

\* the load of one archetype's model where this.prefabs has none; the trace entry
\* tells the archetype and whether the load succeeded
loadPrefabForType(s, type) ==
    IF s.prefabs[type] THEN s
    ELSE [s EXCEPT !.prefabs[type] = s.assets[type],
                   !.prefabSize[type] = IF s.assets[type] THEN scaledSize(type, s.models[type]) ELSE @,
                   !.trace = Append(@, [op |-> "loadPrefabForType", type |-> type, ok |-> s.assets[type]])]

ensurePrefabs(s) == loadPrefabForType(loadPrefabForType(s, Fighter), Interceptor)

\* the promise of init or reset was rejected: a model is still missing
Rejected(s) == \E type \in EnemyType : ~s.prefabs[type]

\* 10 * Math.max(size.x, size.y, size.z) * 0.6
baseRadius(size) == Max(size[1], Max(size[2], size[3])) * 6

\* the adversaries init spawns once the prefabs are there.
\* jitter[i] is Math.random() * 600 and delay[i] the fire delay drawn for the i-th spawn;
\* hits is history: the confirmed player hits the adversary has taken;
\* boundingRadius is in tenths of a unit
spawn(s, count, interceptors, jitter, delay) ==
    LET spawnTypes == buildSpawnList(count, interceptors)
        total == Len(spawnTypes)
        base == Len(s.enemies)
        spawned == [i \in 1..total |->
                       [id |-> base + i,
                        type |-> spawnTypes[i],
                        position |-> 0,
                        orientation |-> 0,
                        velocity |-> 0,
                        approachProgress |-> FZero,
                        approachTime |-> 0,
                        health |-> archetypes[spawnTypes[i]].health,
                        hits |-> 0,
                        lastShot |-> 0 - jitter[i],
                        fireDelay |-> delay[i],
                        boundingRadius |-> baseRadius(s.prefabSize[spawnTypes[i]])]]
    IN  [s EXCEPT !.enemies = @ \o spawned]

\* init spawning although ensurePrefabs failed
initAnyway(s, count, interceptors, jitter, delay) ==
    spawn(ensurePrefabs(s), count, interceptors, jitter, delay)

init(s, count, interceptors, jitter, delay) ==
    LET s1 == ensurePrefabs(s)
    IN  IF Rejected(s1) THEN s1 ELSE spawn(s1, count, interceptors, jitter, delay)

\* reset that spawns without clearing the adversaries and projectiles it finds
resetKeeps(s, count, interceptors, jitter, delay) ==
    init([s EXCEPT !.active = FALSE,
                   !.trace = Append(@, [op |-> "reset", fighters |-> count,
                                        interceptors |-> interceptors,
                                        enemies |-> Len(s.enemies), bullets |-> Len(s.bullets)])],
         count, interceptors, jitter, delay)

\* the trace entry tells the composition asked for and how much there was to clear
reset(s, count, interceptors, jitter, delay) ==
    init([s EXCEPT !.enemies = <<>>, !.bullets = <<>>, !.active = FALSE,
                   !.trace = Append(@, [op |-> "reset", fighters |-> count,
                                        interceptors |-> interceptors,
                                        enemies |-> Len(s.enemies), bullets |-> Len(s.bullets)])],
         count, interceptors, jitter, delay)

\* init called while models are missing: it starts the load of each missing model
\* and is suspended until they have settled; with every prefab there it goes on in
\* the microtasks of the same task. id names the call
initCall(s, count, interceptors, jitter, delay) ==
    LET missing == {type \in EnemyType : ~s.prefabs[type]}
    IN  IF missing = {} THEN spawn(s, count, interceptors, jitter, delay)
        ELSE [s EXCEPT !.inits = Append(@, [id |-> FreshIds({c.id : c \in Range(s.inits)}, 1, 1)[1],
                                            count |-> count, interceptors |-> interceptors,
                                            waiting |-> missing, rejected |-> FALSE])]

\* reset up to the point where its init is suspended
resetCall(s, count, interceptors, jitter, delay) ==
    initCall([s EXCEPT !.enemies = <<>>, !.bullets = <<>>, !.active = FALSE,
                       !.trace = Append(@, [op |-> "reset", fighters |-> count,
                                            interceptors |-> interceptors,
                                            enemies |-> Len(s.enemies), bullets |-> Len(s.bullets)])],
             count, interceptors, jitter, delay)

\* the load of one model that the suspended call id of init waits for settles: a
\* loaded model becomes this.prefabs[type]; when the last load of the call has
\* settled init goes on and spawns, unless one of its loads failed
loadSettled(s, id, type, jitter, delay) ==
    LET i == CHOOSE k \in DOMAIN s.inits : s.inits[k].id = id
        call == s.inits[i]
        ok == s.assets[type]
        s1 == IF ok THEN [s EXCEPT !.prefabs[type] = TRUE,
                                   !.prefabSize[type] = scaledSize(type, s.models[type])]
              ELSE s
        left == [call EXCEPT !.waiting = @ \ {type}, !.rejected = @ \/ ~ok]
    IN  IF left.waiting # {} THEN [s1 EXCEPT !.inits[i] = left]
        ELSE IF left.rejected THEN [s1 EXCEPT !.inits = splice(@, i)]
        ELSE spawn([s1 EXCEPT !.inits = splice(@, i)], call.count, call.interceptors, jitter, delay)

setFireEnabled(s, enabled) == [s EXCEPT !.fireEnabled = enabled]

setActive(s, a) == [s EXCEPT !.active = a]

\* updateMovement without Math.min(1, ...): the progress may pass 1
updateMovementUnclamped(enemy, delta, dir, push) ==
    IF FLess(enemy.approachProgress, FOne)
    THEN [enemy EXCEPT
            !.approachProgress = FAdd(@, FDiv(FSeconds(delta), approachDuration)),
            !.approachTime = @ + delta,
            !.position = @ + 1,
            !.velocity = 0]
    ELSE LET a == archetypes[enemy.type]
             desiredVel == dir * a.speedTarget
             steer == clampLength(desiredVel + push - enemy.velocity, (a.maxAccel * delta) \div 1000)
         IN  [enemy EXCEPT !.velocity = clampLength(@ + steer, a.maxSpeed),
                           !.position = @ + 1]

\* updateMovement without steer.clampLength: the velocity turns to the desired one
\* at once
updateMovementSnap(enemy, delta, dir, push) ==
    IF FLess(enemy.approachProgress, FOne)
    THEN [enemy EXCEPT
            !.approachProgress = FMin(FOne, FAdd(@, FDiv(FSeconds(delta), approachDuration))),
            !.approachTime = @ + delta,
            !.position = @ + 1,
            !.velocity = 0]
    ELSE LET a == archetypes[enemy.type]
             desiredVel == dir * a.speedTarget
             steer == desiredVel + push - enemy.velocity
         IN  [enemy EXCEPT !.velocity = clampLength(@ + steer, a.maxSpeed),
                           !.position = @ + 1]

\* dir: the sign of desiredPos - position; push: the avoidance vector, both along
\* the modelled axis.
\* approachTime is history: the time spent in the approach branch. Both branches
\* write root.position (lerpVectors, addScaledVector); position tells how far the
\* adversary is from where the task found it, in writes
updateMovement(enemy, delta, dir, push) ==
    IF FLess(enemy.approachProgress, FOne)
    THEN [enemy EXCEPT
            !.approachProgress = FMin(FOne, FAdd(@, FDiv(FSeconds(delta), approachDuration))),
            !.approachTime = @ + delta,
            !.position = @ + 1,
            !.velocity = 0]
    ELSE LET a == archetypes[enemy.type]
             desiredVel == dir * a.speedTarget
             steer == clampLength(desiredVel + push - enemy.velocity, (a.maxAccel * delta) \div 1000)
         IN  [enemy EXCEPT !.velocity = clampLength(@ + steer, a.maxSpeed),
                           !.position = @ + 1]

\* spawnLaser taking the miss decision once for the whole volley
spawnLaserOneDraw(s, enemy, miss, named) ==
    LET a == archetypes[enemy.type]
        ids == IF named THEN FreshIds({b.id : b \in Range(s.bullets)}, a.muzzleOffsets, 1)
               ELSE [k \in 1..a.muzzleOffsets |-> 0]
    IN  [s EXCEPT !.bullets = @ \o [k \in 1..a.muzzleOffsets |->
                                       [id |-> ids[k], life |-> a.bulletLife,
                                        miss |-> miss[1]]]]

\* miss[k]: the draw Math.random() < 0.5 of the k-th muzzle; a projectile's miss
\* tells whether it was aimed beside the player; where named, its id tells the
\* object pushed onto the list from the others on it, and is 0 where projectiles
\* are not followed one by one
spawnLaser(s, enemy, miss, named) ==
    LET a == archetypes[enemy.type]
        ids == IF named THEN FreshIds({b.id : b \in Range(s.bullets)}, a.muzzleOffsets, 1)
               ELSE [k \in 1..a.muzzleOffsets |-> 0]
    IN  [s EXCEPT !.bullets = @ \o [k \in 1..a.muzzleOffsets |->
                                       [id |-> ids[k], life |-> a.bulletLife,
                                        miss |-> miss[k]]]]

\* Fires without the approach gate: an adversary still flying in may fire
FiresApproaching(s, enemy, aimDot) ==
    /\ s.fireEnabled
    /\ ~(0 - enemy.lastShot < enemy.fireDelay)
    /\ ~(aimDot < AimThreshold)

\* Fires without the aim test: an adversary fires whatever it faces
FiresAnyAim(s, enemy, aimDot) ==
    /\ s.fireEnabled
    /\ ~FLess(enemy.approachProgress, FOne)
    /\ ~(0 - enemy.lastShot < enemy.fireDelay)

\* Fires without the fire-delay gate: an adversary in position that faces the
\* player fires on every tick
FiresEveryTick(s, enemy, aimDot) ==
    /\ s.fireEnabled
    /\ ~FLess(enemy.approachProgress, FOne)
    /\ ~(aimDot < AimThreshold)

\* does tryShoot reach the firing statements for this adversary
Fires(s, enemy, aimDot) ==
    /\ s.fireEnabled
    /\ ~FLess(enemy.approachProgress, FOne)
    /\ ~(0 - enemy.lastShot < enemy.fireDelay)
    /\ ~(aimDot < AimThreshold)

\* aimDot: 100 * forward.dot(toPlayer); newDelay: the fire delay drawn on firing.
\* The trace entry tells whether it fired, what it faced, whether it was still
\* approaching, and whether lastShot and fireDelay were kept
tryShoot(s, i, aimDot, newDelay, miss, named) ==
    LET enemy == s.enemies[i]
        ev == [Ev("tryShoot", enemy.id) EXCEPT
                 !.aimDot = aimDot, !.approaching = FLess(enemy.approachProgress, FOne)]
    IN  IF ~Fires(s, enemy, aimDot)
        THEN [s EXCEPT !.trace = Append(@, ev)]
        ELSE spawnLaser([s EXCEPT !.enemies[i].lastShot = 0,
                                  !.enemies[i].fireDelay = newDelay,
                                  !.trace = Append(@, [ev EXCEPT !.fired = TRUE, !.kept = FALSE])],
                        enemy, miss, named)

\* root.quaternion.slerp(targetQuat, 0.12); orientation tells how far the
\* adversary is turned from how the task found it, in writes
updateOrientation(enemy) == [enemy EXCEPT !.orientation = @ + 1]

\* the body of the loop taking the fire decision before it steers the adversary
updateEnemyFiresFirst(s, i, delta, in) ==
    LET id == s.enemies[i].id
        s1 == tryShoot(s, i, in[id].aim, in[id].delay, in[id].miss, in[id].named)
        s2 == [s1 EXCEPT !.enemies[i] = updateMovement(@, delta, in[id].dir, in[id].push),
                         !.trace = Append(@, Ev("updateMovement", id))]
    IN  [s2 EXCEPT !.enemies[i] = updateOrientation(@),
                   !.trace = Append(@, Ev("updateOrientation", id))]

\* the body of the per-adversary loop of update, for the adversary at index i
updateEnemy(s, i, delta, in) ==
    LET id == s.enemies[i].id
        s1 == [s EXCEPT !.enemies[i] = updateMovement(@, delta, in[id].dir, in[id].push),
                        !.trace = Append(@, Ev("updateMovement", id))]
        s2 == [s1 EXCEPT !.enemies[i] = updateOrientation(@),
                         !.trace = Append(@, Ev("updateOrientation", id))]
    IN  tryShoot(s2, i, in[id].aim, in[id].delay, in[id].miss, in[id].named)

\* the per-adversary loop of update, from index i down to 1
RECURSIVE steerAndFire(_, _, _, _)
steerAndFire(s, i, delta, in) ==
    IF i < 1 THEN s
    ELSE steerAndFire(updateEnemy(s, i, delta, in), i - 1, delta, in)

updateBullets(s, delta) ==
    [s EXCEPT !.bullets = expire(@, Len(@), delta), !.trace = Append(@, Ev("updateBullets", 0))]

\* the pass leaving the loop at the first projectile that hits (break)
RECURSIVE enemyHitsLoopBreak(_, _, _, _)
enemyHitsLoopBreak(s, i, near, on) ==
    IF i < 1 THEN s
    ELSE IF i \in near
         THEN invokeOnPlayerHit([s EXCEPT !.bullets = splice(@, i)], on)
         ELSE enemyHitsLoopBreak(s, i - 1, near, on)

\* near: the indices of the projectiles within hitRadius of the player
RECURSIVE enemyHitsLoop(_, _, _, _)
enemyHitsLoop(s, i, near, on) ==
    IF i < 1 THEN s
    ELSE IF i \in near
         THEN enemyHitsLoop(invokeOnPlayerHit([s EXCEPT !.bullets = splice(@, i)], on), i - 1, near, on)
         ELSE enemyHitsLoop(s, i - 1, near, on)

handleEnemyHitsPlayer(s, near, on) ==
    enemyHitsLoop([s EXCEPT !.trace = Append(@, Ev("handleEnemyHitsPlayer", 0))],
                  Len(s.bullets), near, on)

\* the explosion and the removal from the scene; the list is the caller's to splice
destroyEnemy(s, enemy) == [s EXCEPT !.exploded = Append(@, enemy.id)]

\* the index of the first player bullet, scanning from j down, that overlaps the adversary
RECURSIVE firstOverlap(_, _, _, _)
firstOverlap(list, j, id, overlap) ==
    IF j < 1 THEN 0
    ELSE IF <<id, list[j].id>> \in overlap THEN j
    ELSE firstOverlap(list, j - 1, id, overlap)

\* hitEnemy without the removal at health <= 0: the adversary stays in the list
hitEnemyKeeps(s, i, j, on) ==
    [s EXCEPT !.playerBullets = splice(@, j),
              !.enemies[i].health = @ - 1,
              !.enemies[i].hits = @ + 1]

\* hitEnemy with the removal one hit early, at health <= 1
hitEnemyEarly(s, i, j, on) ==
    LET enemy == s.enemies[i]
        s1 == [s EXCEPT !.playerBullets = splice(@, j),
                        !.enemies[i].health = @ - 1,
                        !.enemies[i].hits = @ + 1]
    IN  IF s1.enemies[i].health <= 1
        THEN invokeOnEnemyDestroyed(
                 [s1 EXCEPT !.enemies = splice(@, i)], on, enemy.type, s1.enemies[i], "hit")
        ELSE s1

\* hitEnemy leaving the projectile in the player's list: it can hit again
hitEnemyKeepsBullet(s, i, j, on) ==
    LET enemy == s.enemies[i]
        s1 == [s EXCEPT !.enemies[i].health = @ - 1,
                        !.enemies[i].hits = @ + 1]
    IN  IF s1.enemies[i].health <= 0
        THEN invokeOnEnemyDestroyed(
                 [destroyEnemy(s1, enemy) EXCEPT !.enemies = splice(@, i)],
                 on, enemy.type, s1.enemies[i], "hit")
        ELSE s1

\* hitEnemy pushing the adversary back: the hit writes enemy.root.position
hitEnemyKnockback(s, i, j, on) ==
    LET enemy == s.enemies[i]
        s1 == [s EXCEPT !.playerBullets = splice(@, j),
                        !.enemies[i].health = @ - 1,
                        !.enemies[i].hits = @ + 1,
                        !.enemies[i].position = @ + 1]
    IN  IF s1.enemies[i].health <= 0
        THEN invokeOnEnemyDestroyed(
                 [destroyEnemy(s1, enemy) EXCEPT !.enemies = splice(@, i)],
                 on, enemy.type, s1.enemies[i], "hit")
        ELSE s1

\* the body of the inner loop of handlePlayerHitsEnemies where player bullet j
\* overlaps adversary i
hitEnemy(s, i, j, on) ==
    LET enemy == s.enemies[i]
        s1 == [s EXCEPT !.playerBullets = splice(@, j),
                        !.enemies[i].health = @ - 1,
                        !.enemies[i].hits = @ + 1]
    IN  IF s1.enemies[i].health <= 0
        THEN invokeOnEnemyDestroyed(
                 [destroyEnemy(s1, enemy) EXCEPT !.enemies = splice(@, i)],
                 on, enemy.type, s1.enemies[i], "hit")
        ELSE s1

\* overlap: the pairs <<adversary id, player bullet id>> with distSq <= hitRadiusSq
RECURSIVE playerHitsLoop(_, _, _, _)
playerHitsLoop(s, i, overlap, on) ==
    IF i < 1 THEN s
    ELSE LET j == firstOverlap(s.playerBullets, Len(s.playerBullets), s.enemies[i].id, overlap)
         IN  IF j = 0 THEN playerHitsLoop(s, i - 1, overlap, on)
             ELSE playerHitsLoop(hitEnemy(s, i, j, on), i - 1, overlap, on)

handlePlayerHitsEnemies(s, overlap, on) ==
    playerHitsLoop([s EXCEPT !.trace = Append(@, Ev("handlePlayerHitsEnemies", 0))],
                   Len(s.enemies), overlap, on)

\* the first half of update advancing the projectiles before the per-adversary loop
updateSteerBulletsFirst(s, delta, in) ==
    steerAndFire(updateBullets([s EXCEPT !.trace = <<>>], delta), Len(s.enemies), delta, in)

\* the first half of update: the per-adversary loop, then the projectile advance
updateSteer(s, delta, in) ==
    updateBullets(steerAndFire([s EXCEPT !.trace = <<>>], Len(s.enemies), delta, in), delta)

\* the second half of update: the two hit passes
updateResolve(s, near, overlap, on) ==
    handlePlayerHitsEnemies(handleEnemyHitsPlayer(s, near, on), overlap, on)

\* update without the check of this.active
updateAlways(s, delta, in, near, overlap, on) ==
    updateResolve(updateSteer(s, delta, in), near, overlap, on)

\* on: the callbacks onPlayerHit and onEnemyDestroyed of the caller
update(s, delta, in, near, overlap, on) ==
    IF ~s.active THEN [s EXCEPT !.trace = <<>>]
    ELSE updateResolve(updateSteer(s, delta, in), near, overlap, on)

\* debugExplodeOne blowing up the first adversary but removing the last (pop)
debugExplodeOnePop(s) ==
    IF Len(s.enemies) = 0 THEN <<s, "null">>
    ELSE LET enemy == s.enemies[1]
         IN  <<[destroyEnemy(s, enemy) EXCEPT !.enemies = splice(@, Len(@))], enemy.type>>

\* <<state, returned type or "null">>
debugExplodeOne(s) ==
    IF Len(s.enemies) = 0 THEN <<s, "null">>
    ELSE LET enemy == s.enemies[1]
         IN  <<[destroyEnemy(s, enemy) EXCEPT !.enemies = splice(@, 1)], enemy.type>>

\* findIndex(e => e.root === root); the root is named by the adversary's id
findIndex(list, id) ==
    IF \E k \in DOMAIN list : list[k].id = id
    THEN CHOOSE k \in DOMAIN list : list[k].id = id /\ \A m \in 1..(k - 1) : list[m].id # id
    ELSE 0

Ids(s) == {e.id : e \in Range(s.enemies)}

EnemyOf(s, id) == s.enemies[findIndex(s.enemies, id)]

\* destroyEnemyByRoot without the early return: splice(-1, 1) removes the last entry
destroyEnemyByRootUnguarded(s, id) ==
    LET idx == findIndex(s.enemies, id)
        at == IF idx = 0 THEN Len(s.enemies) ELSE idx
    IN  IF at = 0 THEN <<s, "null">>
        ELSE <<[destroyEnemy(s, s.enemies[at]) EXCEPT !.enemies = splice(@, at)], s.enemies[at].type>>

destroyEnemyByRoot(s, id) ==
    LET idx == findIndex(s.enemies, id)
    IN  IF idx = 0 THEN <<s, "null">>
        ELSE <<[destroyEnemy(s, s.enemies[idx]) EXCEPT !.enemies = splice(@, idx)], s.enemies[idx].type>>


(***************************************************************************)
(* main.ts: the asteroid pass, the frame and the inputs of one frame.      *)
(***************************************************************************)
\* one asteroid of handleAsteroidCollisions that touches something: player = it is
\* within reach of the player, enemy = the id of an adversary within reach (0: none)
collide(s, c) ==
    IF ~s.playerDestroyed /\ c.player
    THEN LET s1 == handlePlayerDestroyed(destroy(s))
         IN  [s1 EXCEPT !.gameStarted = FALSE, !.resultShown = "Przegrana",
                        !.active = FALSE, !.fireEnabled = FALSE]
    ELSE LET r == destroyEnemyByRoot(s, c.enemy)
         IN  IF r[2] = "null" THEN s ELSE onEnemyDestroyed(r[1], r[2], EnemyOf(s, c.enemy), "asteroid")

RECURSIVE handleAsteroidCollisions(_, _)
handleAsteroidCollisions(s, contacts) ==
    IF contacts = <<>> THEN s
    ELSE handleAsteroidCollisions(collide(s, Head(contacts)), Tail(contacts))

\* shot: the ids of the player bullets that reach an asteroid
handleAsteroidBulletHits(s, shot) ==
    [s EXCEPT !.playerBullets = SelectSeq(@, LAMBDA b : b.id \notin shot)]

\* all the functions f on ids with f[id] \in choices[id]
RECURSIVE Choose(_, _)
Choose(ids, choices) ==
    IF ids = {} THEN {<<>>}
    ELSE LET id == CHOOSE x \in ids : TRUE
         IN  {f @@ (id :> c) : f \in Choose(ids \ {id}, choices), c \in choices[id]}

\* How much of what can happen in one tick is explored:
\*   deltas    the frame times, ms
\*   all       every adversary can fire, be hit or be rammed (else the first of the list)
\*   cap       the adversary projectiles in flight
\*   reach     the newest projectiles of a list that can hit
\*   near      the adversary projectiles that reach the player in one tick
\*   together  the projectiles in flight reach the player together or not at all
\*   hitWaves  the waves in which adversary projectiles reach the player
\*   overlaps  the overlapping (adversary, player projectile) pairs of one hit pass
\*   draws     the fire delays drawn from a range: its minimum, or both its ends
\*   facing    an adversary that does not fire may still face the player
\*   dirs      the directions an adversary is drawn to along the modelled axis
\*   pushes    the avoidance pushes along it
\*   resets    the compositions (fighters, interceptors) the squadron is reset to
\* Coarse is the game, Combat the squadron under fire, Timing one adversary's clock.
Coarse ==
    [deltas |-> GameDeltas, all |-> FALSE, cap |-> MaxGameBullets, reach |-> 1,
     near |-> MaxGameBullets, together |-> TRUE, hitWaves |-> MaxHitWave, overlaps |-> 1,
     draws |-> 1, facing |-> FALSE, misses |-> FALSE, named |-> FALSE, dirs |-> Dirs, pushes |-> NoPush,
     boosts |-> {FALSE}, resets |-> {}]

Combat ==
    [deltas |-> CombatDeltas, all |-> TRUE, cap |-> MaxBullets, reach |-> MaxReach,
     near |-> MaxNear, together |-> FALSE, hitWaves |-> 6, overlaps |-> MaxOverlaps,
     draws |-> 1, facing |-> FALSE, misses |-> FALSE, named |-> FALSE, dirs |-> Dirs, pushes |-> NoPush,
     boosts |-> {FALSE}, resets |-> Compositions]

Timing ==
    [deltas |-> Deltas, all |-> TRUE, cap |-> MaxBullets, reach |-> 0,
     near |-> 0, together |-> FALSE, hitWaves |-> 6, overlaps |-> 0,
     draws |-> 2, facing |-> TRUE, misses |-> FALSE, named |-> FALSE, dirs |-> Dirs, pushes |-> NoPush,
     boosts |-> {FALSE}, resets |-> Singles]

\* the fire delays THREE.MathUtils.randFloat(min, max) draws
DelaysOf(range, p) == IF p.draws = 1 THEN {range[1]} ELSE {range[1], range[2]}

Targets(s, p) ==
    IF p.all THEN Ids(s) ELSE IF s.enemies = <<>> THEN {} ELSE {s.enemies[1].id}

\* the indices of the p.reach newest elements of a projectile list
Newest(list, p) == {k \in DOMAIN list : k > Len(list) - p.reach}

\* no muzzle misses; also what stands for the draws where none is made
NoMiss(type) == [k \in 1..archetypes[type].muzzleOffsets |-> FALSE]

\* the draws of missShot for one volley, one per muzzle
MissDraws(type, p) ==
    IF p.misses THEN [1..archetypes[type].muzzleOffsets -> BOOLEAN]
    ELSE {NoMiss(type)}

\* the inputs of the per-adversary loop, per adversary id: dir the steering direction,
\* push the avoidance push, aim the facing (100 * aimDot), delay the fire delay and miss the miss decisions
\* drawn if it fires (nothing is drawn where it does not fire)
SteerInputs(s, delta, p) ==
    LET ids == Ids(s)
        away == {x \in AimDots : x < AimThreshold}
        choices == [id \in ids |->
            LET e == EnemyOf(s, id)
            IN  UNION {
                  IF Fires(s, updateMovement(e, delta, d, 0), AimThreshold)
                  THEN {[dir |-> d, push |-> u, aim |-> a, delay |-> e.fireDelay,
                         miss |-> NoMiss(e.type), named |-> p.named] : a \in away, u \in p.pushes}
                       \cup {[dir |-> d, push |-> u, aim |-> a, delay |-> n, miss |-> v, named |-> p.named] :
                            a \in IF id \in Targets(s, p) THEN AimDots \ away ELSE {},
                            n \in DelaysOf(archetypes[e.type].fireDelayRange, p),
                            v \in MissDraws(e.type, p), u \in p.pushes}
                  ELSE {[dir |-> d, push |-> u, aim |-> a, delay |-> e.fireDelay,
                         miss |-> NoMiss(e.type), named |-> p.named] :
                            a \in IF p.facing THEN AimDots ELSE away, u \in p.pushes}
                  : d \in p.dirs}]
    IN  Choose(ids, choices)

\* the inputs EnemySquadron.update can meet in state s: the steering inputs, the
\* indices of the projectiles near the player and the overlapping pairs
\* <<adversary id, player bullet id>>
UpdateInputs(s, delta, p) ==
    IF ~s.active THEN {[steer |-> <<>>, near |-> {}, overlap |-> {}]}
    ELSE UNION {
           LET s1 == updateSteer(s, delta, st)
           IN  IF Len(s1.bullets) > p.cap THEN {}
               ELSE [steer : {st},
                     near : IF s.wave > p.hitWaves THEN {{}}
                            ELSE IF p.together THEN {{}, DOMAIN s1.bullets}
                            ELSE SubsetsUpTo(Newest(s1.bullets, p), p.near),
                     overlap : SubsetsUpTo(
                         Targets(s, p) \X {s.playerBullets[k].id : k \in Newest(s.playerBullets, p)},
                         p.overlaps)]
           : st \in SteerInputs(s, delta, p)}

\* the asteroid contacts of one frame. An asteroid that touches the player and an
\* adversary acts as one that touches the player while the player lives and as one
\* that touches the adversary afterwards, so each contact names one of the two
Contacts(s, p) ==
    LET one == {c \in [player : BOOLEAN, enemy : Targets(s, p) \cup {0}] : c.player # (c.enemy # 0)}
        RECURSIVE upTo(_)
        upTo(k) == IF k = 0 THEN {<<>>}
                   ELSE upTo(k - 1) \cup {Append(q, c) : q \in {x \in upTo(k - 1) : Len(x) = k - 1}, c \in one}
    IN  upTo(MaxContacts)

\* delta ms pass: every timestamp moves delta into the past
elapse(s, delta) ==
    LET due(tm) == IF tm.pending THEN [tm EXCEPT !.due = Max(0, @ - delta)] ELSE tm
    IN  [s EXCEPT !.enemies = [k \in DOMAIN @ |-> [@[k] EXCEPT !.lastShot = Max(0 - Horizon, @ - delta)]],
                  !.playerLastShot = Max(0 - Horizon, @ - delta),
                  !.overboostLockedUntil = Max(0, @ - delta),
                  !.winTimer = due(@),
                  !.firstWaveTimer = due(@)]

\* main.ts update(): one animation frame, delta ms after the previous one
frame(s, delta, in) ==
    LET s0 == playerUpdateBullets(playerUpdate(elapse(s, delta), delta, in.boost), delta)
        s1 == IF s0.gameStarted /\ ~s0.playerDestroyed
              THEN update(s0, delta, in.steer, in.near, in.overlap, Main) ELSE s0
    IN  handleAsteroidCollisions(handleAsteroidBulletHits(s1, in.shot), in.contacts)

\* the inputs one frame can meet in state s
FrameInputs(s, delta, p) ==
    LET s0 == playerUpdateBullets(elapse(s, delta), delta)
        squadron == IF s0.gameStarted /\ ~s0.playerDestroyed
                    THEN UpdateInputs(s0, delta, p)
                    ELSE {[steer |-> <<>>, near |-> {}, overlap |-> {}]}
        asteroids == [shot : SubsetsUpTo({s0.playerBullets[k].id : k \in Newest(s0.playerBullets, p)},
                                         MaxAsteroidHits),
                      contacts : Contacts(s0, p)]
    IN  {u @@ a @@ [boost |-> b] : u \in squadron, a \in asteroids, b \in p.boosts}

startGame(s) ==
    LET s1 == clearWinTimer([s EXCEPT !.gameStarted = TRUE, !.loopStarted = TRUE])
        s2 == setFireEnabled(setActive(s1, FALSE), FALSE)
        s3 == IF s2.firstWaveTimer.set THEN [s2 EXCEPT !.firstWaveTimer.pending = FALSE] ELSE s2
    IN  [s3 EXCEPT !.orphans = @ + orphaned(s3.firstWaveTimer),
                   !.firstWaveTimer = Timeout(FirstWaveDelay, 0, 0),
                   !.resultShown = "", !.winPending = FALSE, !.wave = 1]

\* the callback of the first-wave timer switching the squadron on without
\* enabling its fire
firstWaveCallbackHolds(s) ==
    setActive([s EXCEPT !.firstWaveTimer.pending = FALSE], TRUE)

\* the callback of the first-wave timer
firstWaveCallback(s) ==
    setFireEnabled(setActive([s EXCEPT !.firstWaveTimer.pending = FALSE], TRUE), TRUE)

\* the callback of the inter-wave timer without the call of fullyHeal
nextWaveCallbackHurt(s, jitter, delay) ==
    LET tm == s.winTimer
        s1 == reset([s EXCEPT !.winTimer.pending = FALSE],
                    tm.fighters, tm.interceptors, jitter, delay)
    IN  IF Rejected(s1) THEN s1
        ELSE setFireEnabled(setActive(resetEnemyIcons(s1), TRUE), TRUE)

\* the callback of the inter-wave timer
nextWaveCallback(s, jitter, delay) ==
    LET tm == s.winTimer
        s1 == reset(fullyHeal([s EXCEPT !.winTimer.pending = FALSE]),
                    tm.fighters, tm.interceptors, jitter, delay)
    IN  IF Rejected(s1) THEN s1
        ELSE setFireEnabled(setActive(resetEnemyIcons(s1), TRUE), TRUE)

\* restartGame without enemies.reset: the squadron is left as the last session left it
restartGameKeepsSquadron(s, jitter, delay) ==
    LET s1 == clearWinTimer(s)
        s2 == playerReset([s1 EXCEPT !.winPending = FALSE, !.gameStarted = FALSE, !.resultShown = ""])
    IN  startGame(resetEnemyIcons([s2 EXCEPT !.wave = 1]))

restartGame(s, jitter, delay) ==
    LET s1 == clearWinTimer(s)
        s2 == playerReset([s1 EXCEPT !.winPending = FALSE, !.gameStarted = FALSE, !.resultShown = ""])
        s3 == reset([s2 EXCEPT !.wave = 1], 1, 0, jitter, delay)
    IN  IF Rejected(s3) THEN s3 ELSE startGame(resetEnemyIcons(s3))

\* the click handler blowing an adversary up without reporting it destroyed
explodeClickUnreported(s) == debugExplodeOne(s)[1]

\* the click handler of the enemy-explosion button
explodeClick(s) ==
    LET before == Len(s.enemies)
        r == debugExplodeOne(s)
    IN  IF Len(r[1].enemies) < before /\ r[2] # "null"
        THEN onEnemyDestroyed(r[1], r[2], s.enemies[1], "debug") ELSE r[1]

\* the click handler of the enemy-fire button
fireToggleClick(s) == setFireEnabled([s EXCEPT !.fireBtnActive = ~@], ~s.fireBtnActive)

\* the values drawn at the spawn of the adversaries of a spawn list
SpawnJitters(types) == [1..Len(types) -> ShotJitters]

SpawnDelays(types, p) ==
    Choose(1..Len(types), [i \in 1..Len(types) |-> DelaysOf(archetypes[types[i]].fireDelayRange, p)])


(***************************************************************************)
(* The game: the tasks of the browser's event loop.                        *)
(***************************************************************************)
\* the state after main.ts init(): one fighter spawned, the controls modal shown
Init ==
    \E delay \in SpawnDelays(buildSpawnList(1, 0), Coarse), jitter \in SpawnJitters(buildSpawnList(1, 0)) :
        /\ enemies = init([enemies |-> <<>>, prefabs |-> [t \in EnemyType |-> TRUE],
                           prefabSize |-> [t \in EnemyType |-> scaledSize(t, ModelSize)]],
                          1, 0, jitter, delay).enemies
        /\ bullets = <<>>
        /\ fireEnabled = TRUE
        /\ active = FALSE
        /\ playerHealth = maxHealth
        /\ playerDestroyed = FALSE
        /\ playerBullets = <<>>
        /\ playerLastShot = 0 - Horizon
        /\ immortal = FALSE
        /\ gameStarted = FALSE
        /\ loopStarted = FALSE
        /\ winPending = FALSE
        /\ winTimer = Null
        /\ firstWaveTimer = Null
        /\ wave = 1
        /\ enemiesTotal = 1
        /\ enemiesDestroyed = 0
        /\ resultShown = ""
        /\ fireBtnActive = TRUE
        /\ prefabs = [t \in EnemyType |-> TRUE]
        /\ assets = [t \in EnemyType |-> TRUE]
        /\ trace = <<>>
        /\ calls = <<>>
        /\ exploded = <<>>
        /\ hitCalls = 0
        /\ models = [t \in EnemyType |-> ModelSize]
        /\ prefabSize = [t \in EnemyType |-> scaledSize(t, ModelSize)]
        /\ inits = <<>>
        /\ defeatCalls = 0
        /\ orphans = 0
        /\ overboostRemainingMs = overboostBudgetMs
        /\ overboostLockedUntil = 0
        /\ speedCall = NoSpeedCall

\* the controls modal is closed
StartGame ==
    /\ ~loopStarted
    /\ Becomes(startGame(task(State)))

FirstWaveTimer ==
    /\ firstWaveTimer.pending
    /\ firstWaveTimer.due = 0
    /\ Becomes(firstWaveCallback(task(State)))

NextWaveTimer ==
    /\ winTimer.pending
    /\ winTimer.due = 0
    /\ LET types == buildSpawnList(winTimer.fighters, winTimer.interceptors)
       IN  \E delay \in SpawnDelays(types, Coarse), jitter \in SpawnJitters(types) :
               Becomes(nextWaveCallback(task(State), jitter, delay))

\* a timer that is due runs before the next animation frame
Frame ==
    /\ loopStarted
    /\ ~(firstWaveTimer.pending /\ firstWaveTimer.due = 0)
    /\ ~(winTimer.pending /\ winTimer.due = 0)
    /\ \E delta \in Coarse.deltas :
           \E in \in FrameInputs(task(State), delta, Coarse) : Becomes(frame(task(State), delta, in))

Shoot ==
    /\ Len(playerBullets) + PlayerMuzzles <= MaxPlayerBullets
    /\ Becomes(shoot(task(State)))

ToggleImmortal == Becomes([task(State) EXCEPT !.immortal = ~@])

ToggleEnemyFire == Becomes(fireToggleClick(task(State)))

ExplodeEnemy == Becomes(explodeClick(task(State)))

\* the retry button of the result modal
Restart ==
    /\ resultShown # ""
    /\ \E delay \in SpawnDelays(buildSpawnList(1, 0), Coarse), jitter \in SpawnJitters(buildSpawnList(1, 0)) :
           Becomes(restartGame(task(State), jitter, delay))

Next ==
    \/ StartGame
    \/ FirstWaveTimer
    \/ NextWaveTimer
    \/ Frame
    \/ Shoot
    \/ ToggleImmortal
    \/ ToggleEnemyFire
    \/ ExplodeEnemy
    \/ Restart

Spec == Init /\ [][Next]_vars


(***************************************************************************)
(* The squadron on its own: EnemySquadron driven through its public        *)
(* methods by a caller whose callbacks leave the state alone, with every   *)
(* input of a tick explored.                                               *)
(***************************************************************************)
\* reset(fighters, interceptors), its prefabs loaded
SquadronReset(p) ==
    \E c \in p.resets :
        LET types == buildSpawnList(c[1], c[2])
        IN  \E delay \in SpawnDelays(types, p), jitter \in SpawnJitters(types) :
                Becomes(reset(task(State), c[1], c[2], jitter, delay))

SquadronSetActive(values) == \E a \in values : Becomes(setActive(task(State), a))

SquadronSetFireEnabled == \E enabled \in BOOLEAN : Becomes(setFireEnabled(task(State), enabled))

\* update(delta, ...), delta ms after the previous task; the caller has advanced the
\* player's projectiles first, as main.ts update() does
SquadronUpdate(p) ==
    \E delta \in p.deltas :
        LET s0 == playerUpdateBullets(elapse(task(State), delta), delta)
        IN  \E in \in UpdateInputs(s0, delta, p) :
                Becomes(update(s0, delta, in.steer, in.near, in.overlap, Probe))

SquadronExplodeOne == Becomes(debugExplodeOne(task(State))[1])

\* destroyEnemyByRoot with the root of a live adversary, or with one that matches none
SquadronDestroyByRoot ==
    \E id \in Ids(State) \cup {0} : Becomes(destroyEnemyByRoot(task(State), id)[1])

\* the squadron under fire: two adversaries, projectiles of both sides in flight
NextSquadron ==
    \/ SquadronReset(Combat)
    \/ SquadronSetActive({TRUE})
    \/ SquadronUpdate(Combat)
    \/ SquadronExplodeOne
    \/ SquadronDestroyByRoot
    \/ Shoot

SpecSquadron == Init /\ [][NextSquadron]_vars

\* the passes of one tick: two fighters under fire with projectiles of both sides in
\* flight, nothing but update, the player's trigger and reset acting on them
Passes ==
    [deltas |-> CombatDeltas, all |-> TRUE, cap |-> MaxBullets, reach |-> MaxPassHits,
     near |-> MaxPassHits, together |-> FALSE, hitWaves |-> 6, overlaps |-> MaxPassHits,
     draws |-> 1, facing |-> FALSE, misses |-> FALSE, named |-> FALSE, dirs |-> Dirs, pushes |-> NoPush,
     boosts |-> {FALSE}, resets |-> {<<2, 0>>}]

NextPasses ==
    \/ SquadronReset(Passes)
    \/ SquadronSetActive({TRUE})
    \/ SquadronUpdate(Passes)
    \/ Shoot

SpecPasses == Init /\ [][NextPasses]_vars

\* one adversary's clock: the approach and the fire delay under every frame time
NextTiming ==
    \/ SquadronReset(Timing)
    \/ SquadronSetActive(BOOLEAN)
    \/ SquadronSetFireEnabled
    \/ SquadronUpdate(Timing)

SpecTiming == Init /\ [][NextTiming]_vars


(***************************************************************************)
(* The squadron and its models: a squadron just constructed, whose model   *)
(* files may or may not be loadable when init or reset asks for them.      *)
(***************************************************************************)
\* the state after new EnemySquadron(...): nothing loaded, nothing spawned
InitSquadron ==
    /\ enemies = <<>>
    /\ bullets = <<>>
    /\ fireEnabled = TRUE
    /\ active = FALSE
    /\ playerHealth = maxHealth
    /\ playerDestroyed = FALSE
    /\ playerBullets = <<>>
    /\ playerLastShot = 0 - Horizon
    /\ immortal = FALSE
    /\ gameStarted = FALSE
    /\ loopStarted = FALSE
    /\ winPending = FALSE
    /\ winTimer = Null
    /\ firstWaveTimer = Null
    /\ wave = 1
    /\ enemiesTotal = 0
    /\ enemiesDestroyed = 0
    /\ resultShown = ""
    /\ fireBtnActive = TRUE
    /\ prefabs = [t \in EnemyType |-> FALSE]
    /\ assets \in [EnemyType -> BOOLEAN]
    /\ trace = <<>>
    /\ calls = <<>>
    /\ exploded = <<>>
    /\ hitCalls = 0
    /\ models = [t \in EnemyType |-> ModelSize]
    /\ prefabSize = [t \in EnemyType |-> <<0, 0, 0>>]
    /\ inits = <<>>
    /\ defeatCalls = 0
    /\ orphans = 0
    /\ overboostRemainingMs = overboostBudgetMs
    /\ overboostLockedUntil = 0
    /\ speedCall = NoSpeedCall

\* a model file becomes loadable or stops being so (server, network)
AssetsChange ==
    \E a \in [EnemyType -> BOOLEAN] : a # assets /\ Becomes([task(State) EXCEPT !.assets = a])

\* the ticks of a squadron that fires without anybody being hit
Loading ==
    [deltas |-> CombatDeltas, all |-> TRUE, cap |-> MaxBullets, reach |-> 0,
     near |-> 0, together |-> FALSE, hitWaves |-> 0, overlaps |-> 0,
     draws |-> 1, facing |-> FALSE, misses |-> FALSE, named |-> FALSE, dirs |-> Dirs, pushes |-> NoPush,
     boosts |-> {FALSE}, resets |-> Compositions]

NextAssets ==
    \/ AssetsChange
    \/ SquadronReset(Loading)
    \/ SquadronSetActive(BOOLEAN)
    \/ SquadronUpdate(Loading)
    \/ SquadronExplodeOne

SpecAssets == InitSquadron /\ [][NextAssets]_vars


(***************************************************************************)
(* The volleys: one adversary firing, every miss decision of every muzzle  *)
(* explored.                                                               *)
(***************************************************************************)
Volley ==
    [deltas |-> CombatDeltas, all |-> TRUE, cap |-> MaxBullets, reach |-> 0,
     near |-> 0, together |-> FALSE, hitWaves |-> 0, overlaps |-> 0,
     draws |-> 1, facing |-> FALSE, misses |-> TRUE, named |-> TRUE, dirs |-> Dirs, pushes |-> NoPush,
     boosts |-> {FALSE}, resets |-> Singles]

NextVolley ==
    \/ SquadronReset(Volley)
    \/ SquadronSetActive({TRUE})
    \/ SquadronUpdate(Volley)

SpecVolley == Init /\ [][NextVolley]_vars


(***************************************************************************)
(* The projectiles in flight: one adversary firing, each projectile named, *)
(* some reaching the player, the squadron switched on and off.  The        *)
(* fairness is the one a projectile's removal is promised under: ticks of  *)
(* the active squadron keep occurring while projectiles are in flight      *)
(* (renderer.setAnimationLoop calls the loop every frame).                 *)
(***************************************************************************)
\* ticks that bring a lifetime of 4 s to exactly 0
FlightDeltas == {1000}

Flight ==
    [deltas |-> FlightDeltas, all |-> TRUE, cap |-> MaxBullets, reach |-> MaxReach,
     near |-> MaxNear, together |-> FALSE, hitWaves |-> 1, overlaps |-> 0,
     draws |-> 1, facing |-> FALSE, misses |-> FALSE, named |-> TRUE, dirs |-> Dirs, pushes |-> NoPush,
     boosts |-> {FALSE}, resets |-> Singles]

\* a step that is a tick of the active squadron: update got past its check of
\* this.active and advanced the projectiles
ActiveTick == active /\ \E t \in DOMAIN trace' : trace'[t].op = "updateBullets"

NextFlight ==
    \/ SquadronReset(Flight)
    \/ SquadronSetActive(BOOLEAN)
    \/ SquadronUpdate(Flight)

SpecFlight ==
    Init /\ [][NextFlight]_vars /\ ([]<>(bullets = <<>>) \/ []<><<ActiveTick>>_vars)


(***************************************************************************)
(* The squadron and whatever its loader returns: the files may hold models *)
(* of any size, one with nothing in it included.                           *)
(***************************************************************************)
\* the sizes of the box around a model: Box3.getSize gives <<0, 0, 0>> for a scene
\* without geometry, and a flat model has a dimension that is 0
ModelSizes == {<<0, 0, 0>>, <<12, 6, 3>>, <<3, 6, 0>>}

\* the model files are replaced (a deployment)
ModelsChange ==
    \E m \in [EnemyType -> ModelSizes] : m # models /\ Becomes([task(State) EXCEPT !.models = m])

NextModels ==
    \/ ModelsChange
    \/ SquadronReset(Loading)
    \/ SquadronSetActive(BOOLEAN)
    \/ SquadronUpdate(Loading)
    \/ SquadronExplodeOne

SpecModels == InitSquadron /\ [][NextModels]_vars


(***************************************************************************)
(* The steering of one adversary: drawn either way along the axis, pushed  *)
(* by what it must avoid, under every frame time, in the ticks in which it *)
(* does not fire.                                                          *)
(***************************************************************************)
\* either direction along the modelled axis
BothDirs == {-1, 1}

\* avoidance pushes: none, or one stronger than any archetype's max speed
Pushes == {-300, 0, 300}

Swerving ==
    [deltas |-> Deltas, all |-> TRUE, cap |-> 0, reach |-> 0,
     near |-> 0, together |-> FALSE, hitWaves |-> 0, overlaps |-> 0,
     draws |-> 1, facing |-> FALSE, misses |-> FALSE, named |-> FALSE, dirs |-> BothDirs,
     pushes |-> Pushes, boosts |-> {FALSE}, resets |-> Singles]

NextSteering ==
    \/ SquadronReset(Swerving)
    \/ SquadronSetActive(BOOLEAN)
    \/ SquadronUpdate(Swerving)

SpecSteering == Init /\ [][NextSteering]_vars


(***************************************************************************)
(* The squadron reset while its models are still loading: init is          *)
(* suspended at its await until the loads settle, in later tasks, and the  *)
(* caller may call reset again in between.                                 *)
(***************************************************************************)
\* calls of init suspended at once
MaxInits == 2

ResetCall ==
    /\ Len(inits) < MaxInits
    /\ \E c \in Compositions :
           LET types == buildSpawnList(c[1], c[2])
           IN  \E delay \in SpawnDelays(types, Loading), jitter \in SpawnJitters(types) :
                   Becomes(resetCall(task(State), c[1], c[2], jitter, delay))

LoadSettles ==
    \E i \in DOMAIN inits : \E type \in inits[i].waiting :
        LET types == buildSpawnList(inits[i].count, inits[i].interceptors)
        IN  \E delay \in SpawnDelays(types, Loading), jitter \in SpawnJitters(types) :
                Becomes(loadSettled(task(State), inits[i].id, type, jitter, delay))

NextResets ==
    \/ ResetCall
    \/ LoadSettles
    \/ SquadronSetActive(BOOLEAN)

SpecResets == InitSquadron /\ [][NextResets]_vars


(***************************************************************************)
(* The game under a barrage: the adversaries' projectiles reach the player *)
(* one by one or together, in the first wave and in the second; the player *)
(* does not fire, and adversaries and player are lost to asteroids.        *)
(***************************************************************************)
\* waves of the barrage in which the adversaries' projectiles reach the player
MaxBarrageWave == 2

Barrage ==
    [deltas |-> GameDeltas, all |-> FALSE, cap |-> MaxGameBullets, reach |-> MaxGameBullets,
     near |-> MaxGameBullets, together |-> FALSE, hitWaves |-> MaxBarrageWave, overlaps |-> 0,
     draws |-> 1, facing |-> FALSE, misses |-> FALSE, named |-> FALSE, dirs |-> Dirs,
     pushes |-> NoPush, boosts |-> {FALSE}, resets |-> {}]

BarrageFrame ==
    /\ loopStarted
    /\ ~(firstWaveTimer.pending /\ firstWaveTimer.due = 0)
    /\ ~(winTimer.pending /\ winTimer.due = 0)
    /\ \E delta \in Barrage.deltas :
           \E in \in FrameInputs(task(State), delta, Barrage) : Becomes(frame(task(State), delta, in))

NextBarrage ==
    \/ StartGame
    \/ FirstWaveTimer
    \/ NextWaveTimer
    \/ BarrageFrame
    \/ ToggleImmortal
    \/ Restart

SpecBarrage == Init /\ [][NextBarrage]_vars


(***************************************************************************)
(* The game with the boost key, held or not on every frame, in frames in   *)
(* which no adversary fires: adversaries and player are lost to asteroids  *)
(* or to the developer's explosion button.  The frame time divides the     *)
(* cooldown and not the budget: the reserve runs out with time to spare    *)
(* from full, and on the nose after a refill cut short.                    *)
(***************************************************************************)
BoostDeltas == {2500}

Boosting ==
    [deltas |-> BoostDeltas, all |-> FALSE, cap |-> 0, reach |-> 0,
     near |-> 0, together |-> FALSE, hitWaves |-> 0, overlaps |-> 0,
     draws |-> 1, facing |-> FALSE, misses |-> FALSE, named |-> FALSE, dirs |-> Dirs, pushes |-> NoPush,
     boosts |-> BOOLEAN, resets |-> {}]

BoostFrame ==
    /\ loopStarted
    /\ ~(firstWaveTimer.pending /\ firstWaveTimer.due = 0)
    /\ ~(winTimer.pending /\ winTimer.due = 0)
    /\ \E delta \in Boosting.deltas :
           \E in \in FrameInputs(task(State), delta, Boosting) : Becomes(frame(task(State), delta, in))

NextBoost ==
    \/ StartGame
    \/ FirstWaveTimer
    \/ NextWaveTimer
    \/ BoostFrame
    \/ ExplodeEnemy
    \/ Restart

SpecBoost == Init /\ [][NextBoost]_vars


(***************************************************************************)
(* The claims.                                                             *)
(***************************************************************************)
\* the live adversaries with this id
Live(list, id) == {k \in DOMAIN list : list[k].id = id}

\* the entries of a trace made by op
Steps(tr, op) == {k \in DOMAIN tr : tr[k].op = op}

\* the onEnemyDestroyed invocations of the task for the adversary with this id
CallsFor(cs, id) == {k \in DOMAIN cs : cs[k].enemy.id = id}

\* C1: an adversary's health is never negative and never increases between two
\* resets; it reaches 0 at most once, and the hit that brings it to 0 removes the
\* adversary from the live list: no live adversary has health below 1, and an
\* adversary a hit has destroyed was at health exactly 0 and is gone.
C1_Health ==
    /\ [](\A k \in DOMAIN enemies :
            enemies[k].health >= 1 /\ enemies[k].health <= archetypes[enemies[k].type].health)
    /\ [](\A c \in DOMAIN calls :
            calls[c].by = "hit" => calls[c].enemy.health = 0 /\ Live(enemies, calls[c].enemy.id) = {})
    /\ [][Steps(trace', "reset") = {} =>
            \A k \in DOMAIN enemies' :
                \E m \in DOMAIN enemies :
                    enemies[m].id = enemies'[k].id /\ enemies'[k].health <= enemies[m].health]_vars

\* a hit has just destroyed one adversary while another, damaged, lives on
C1_Witness ==
    /\ \E c \in DOMAIN calls : calls[c].by = "hit" /\ calls[c].enemy.health = 0
    /\ \E k \in DOMAIN enemies : enemies[k].health < archetypes[enemies[k].type].health

\* C2: an adversary is spawned with its archetype's health H; the H-th confirmed
\* player hit removes it and invokes onEnemyDestroyed exactly once, with its
\* archetype tag; none of the first H - 1 hits invokes it.
C2_DestroyedOnce ==
    /\ [](\A k \in DOMAIN enemies :
            /\ enemies[k].hits < archetypes[enemies[k].type].health
            /\ enemies[k].health = archetypes[enemies[k].type].health - enemies[k].hits
            /\ CallsFor(calls, enemies[k].id) = {})
    /\ [](\A c \in DOMAIN calls :
            calls[c].by = "hit" =>
                /\ calls[c].enemy.hits = archetypes[calls[c].enemy.type].health
                /\ calls[c].type = calls[c].enemy.type
                /\ CallsFor(calls, calls[c].enemy.id) = {c})
    /\ [][\A k \in DOMAIN enemies :
            (Steps(trace', "handlePlayerHitsEnemies") # {} /\ Live(enemies', enemies[k].id) = {})
                => \E c \in DOMAIN calls' : calls'[c].by = "hit" /\ calls'[c].enemy.id = enemies[k].id]_vars

\* the third hit on an adversary has just removed it and invoked onEnemyDestroyed
C2_Witness ==
    \E c \in DOMAIN calls :
        /\ calls[c].by = "hit"
        /\ calls[c].enemy.hits = 3
        /\ calls[c].type = calls[c].enemy.type
        /\ Live(enemies, calls[c].enemy.id) = {}

\* C3: after every tick an adversary whose approach progress is below 1 has velocity
\* exactly zero, and no fire decision taken for an adversary whose approach progress
\* is below 1 spawns a projectile.
C3_ApproachInert ==
    /\ \A k \in DOMAIN enemies :
           FLess(enemies[k].approachProgress, FOne) => enemies[k].velocity = 0
    /\ \A t \in Steps(trace, "tryShoot") : trace[t].approaching => ~trace[t].fired

\* an adversary that has flown in for a while, faces the player with fire enabled and
\* its fire delay elapsed, and does not fire because it is still approaching
C3_Witness ==
    /\ fireEnabled
    /\ \E t \in Steps(trace, "tryShoot") :
           /\ trace[t].approaching /\ ~trace[t].fired /\ trace[t].aimDot >= AimThreshold
           /\ \E k \in Live(enemies, trace[t].id) :
                  /\ enemies[k].approachTime > 0
                  /\ FLess(enemies[k].approachProgress, FOne)
                  /\ 0 - enemies[k].lastShot >= enemies[k].fireDelay

\* C4: the task in which the player is destroyed ends with fireEnabled false and the
\* game stopped, and removes no adversary but those it reports destroyed; from then
\* on, until the restart makes the player alive again, no fire decision is taken, the
\* adversary projectile list does not change, and fireEnabled changes only when the
\* developer's enemy-fire button is clicked.
C4_DefeatStopsFire ==
    /\ [][(~playerDestroyed /\ playerDestroyed') =>
            /\ ~fireEnabled' /\ ~gameStarted'
            /\ \A k \in DOMAIN enemies :
                   Live(enemies', enemies[k].id) # {} \/ CallsFor(calls', enemies[k].id) # {}]_vars
    /\ [][(playerDestroyed /\ playerDestroyed') =>
            /\ bullets' = bullets /\ Steps(trace', "tryShoot") = {}
            /\ fireEnabled' # fireEnabled => fireBtnActive' # fireBtnActive]_vars

\* an adversary projectile has just destroyed the player while adversaries live: the
\* result is shown and fire is off
C4_Witness ==
    /\ playerDestroyed /\ hitCalls > 0 /\ resultShown = "Przegrana"
    /\ ~fireEnabled /\ enemies # <<>>

\* C4 as stated: fireEnabled is false for as long as the player is destroyed
C4_FireOffWhileDestroyed == playerDestroyed => ~fireEnabled

\* the compositions <<fighters, interceptors>> of the waves 1 to 6, as the claim lists them
WaveTable == <<(<<1, 0>>), (<<2, 0>>), (<<3, 0>>), (<<2, 1>>), (<<3, 1>>), (<<3, 2>>)>>

\* the live adversaries counted by archetype
Composition(list) ==
    <<Cardinality({k \in DOMAIN list : list[k].type = Fighter}),
      Cardinality({k \in DOMAIN list : list[k].type = Interceptor})>>

\* C5: when a wave is cleared the wave counter moves to the next entry of the wave
\* table and, unless the player is destroyed in the same frame, the inter-wave timer
\* is armed with that entry's composition; the
\* repopulation then builds exactly that composition: 2 fighters after wave 1, then
\* (3,0), (2,1), (3,1), (3,2).
C5_NextWave ==
    /\ [][wave' \notin {wave, 1} =>
            /\ enemies' = <<>> /\ wave' = wave + 1
            /\ \/ playerDestroyed'
               \/ /\ winTimer'.pending
                  /\ <<winTimer'.fighters, winTimer'.interceptors>> = WaveTable[wave']]_vars
    /\ [](winTimer.pending => <<winTimer.fighters, winTimer.interceptors>> = WaveTable[wave])
    /\ [](\A t \in Steps(trace, "reset") :
            /\ <<trace[t].fighters, trace[t].interceptors>> = WaveTable[wave]
            /\ Composition(enemies) = WaveTable[wave])

\* the last wave has just been populated, after the inter-wave timer ran
C5_Witness ==
    /\ wave = 6 /\ ~winTimer.pending /\ winTimer.set
    /\ \E t \in Steps(trace, "reset") : trace[t].fighters = 3 /\ trace[t].interceptors = 2
    /\ Composition(enemies) = <<3, 2>>

\* C6: after reset(fighters, interceptors) the squadron holds exactly that many
\* adversaries of each archetype and no other, each at its archetype's full health
\* with approach progress 0, and no adversary projectile, whatever it held before.
C6_ResetComposition ==
    \A t \in Steps(trace, "reset") :
        /\ Composition(enemies) = <<trace[t].fighters, trace[t].interceptors>>
        /\ Len(enemies) = trace[t].fighters + trace[t].interceptors
        /\ \A k \in DOMAIN enemies :
               /\ enemies[k].health = archetypes[enemies[k].type].health
               /\ enemies[k].approachProgress = FZero
        /\ bullets = <<>>

\* a squadron of two adversaries with projectiles in flight has just been reset to
\* another composition
C6_Witness ==
    \E t \in Steps(trace, "reset") :
        /\ trace[t].enemies = 2 /\ trace[t].bullets > 0
        /\ trace[t].fighters = 1 /\ trace[t].interceptors = 1
        /\ Len(enemies) = 2

\* the steps of a trace that steer an adversary
Steering(tr) == Steps(tr, "updateMovement") \cup Steps(tr, "updateOrientation")

C8_FireBeforeResolve ==
    Steering(trace) # {} =>
        \E u, h, p \in DOMAIN trace :
            /\ Steps(trace, "updateBullets") = {u}
            /\ Steps(trace, "handleEnemyHitsPlayer") = {h}
            /\ Steps(trace, "handlePlayerHitsEnemies") = {p}
            /\ u < h /\ h < p /\ p = Len(trace)
            /\ \A a \in Steps(trace, "tryShoot") \cup Steering(trace) : a < u

\* an update in which two adversaries decide, one fires, a projectile reaches the
\* player and a player projectile destroys an adversary
C8_Witness ==
    /\ Cardinality(Steps(trace, "tryShoot")) = 2
    /\ \E a \in Steps(trace, "tryShoot") : trace[a].fired
    /\ hitCalls > 0 /\ calls # <<>>

\* C9: a fire decision spawns a projectile only when the adversary faces the player
\* with 100 * aimDot >= 78; a decision taken with a smaller aimDot does not fire and
\* leaves the adversary's fire delay and its lastShot timestamp as they were (the
\* timestamp only older by the frame time).
C9_FacingThreshold ==
    /\ [](\A t \in Steps(trace, "tryShoot") :
            /\ trace[t].fired => trace[t].aimDot >= AimThreshold
            /\ trace[t].aimDot < AimThreshold => ~trace[t].fired /\ trace[t].kept)
    /\ [][\A t \in Steps(trace', "tryShoot") :
            trace'[t].aimDot < AimThreshold =>
                \A k \in Live(enemies, trace'[t].id), m \in Live(enemies', trace'[t].id) :
                    /\ enemies'[m].fireDelay = enemies[k].fireDelay
                    /\ \E d \in Deltas :
                           enemies'[m].lastShot = Max(0 - Horizon, enemies[k].lastShot - d)]_vars

\* an adversary in position, fire enabled and its fire delay elapsed, that faces just
\* off the player and does not fire
C9_Witness ==
    /\ fireEnabled
    /\ \E t \in Steps(trace, "tryShoot") :
           /\ trace[t].aimDot < AimThreshold /\ ~trace[t].approaching /\ ~trace[t].fired
           /\ \E k \in Live(enemies, trace[t].id) :
                  0 - enemies[k].lastShot >= enemies[k].fireDelay

\* C10 as stated: an adversary that has spent 3 s of ticks in the approach has
\* approach progress exactly 1, whatever the frame times that made up the 3 s.
C10_ExactAfterThreeSeconds ==
    \A k \in DOMAIN enemies :
        enemies[k].approachTime = 1000 * approachDuration => enemies[k].approachProgress = FOne

\* the result modal shows the victory text
Victory == resultShown = "Zwyciestwo"

\* the step removes the last live adversary and reports it destroyed
Clears == enemies # <<>> /\ enemies' = <<>> /\ calls' # <<>>

NoTimerPending == ~winTimer.pending /\ ~firstWaveTimer.pending

\* C12: the task in which the player is destroyed, by adversary fire or by an
\* asteroid, ends with fire disabled, the squadron inactive and neither the
\* inter-wave nor the first-wave timer pending; until the restart the squadron stays
\* inactive, no timer becomes pending, no adversary is spawned, and fireEnabled
\* changes only when the developer's enemy-fire button is clicked.
C12_DefeatCancelsAll ==
    /\ [][(~playerDestroyed /\ playerDestroyed') => ~fireEnabled']_vars
    /\ [](playerDestroyed => ~active /\ NoTimerPending)
    /\ [][(playerDestroyed /\ playerDestroyed') =>
            /\ Steps(trace', "reset") = {}
            /\ \A k \in DOMAIN enemies' : Live(enemies, enemies'[k].id) # {}
            /\ fireEnabled' # fireEnabled => fireBtnActive' # fireBtnActive]_vars

\* the frame that shot down the last adversary of wave 1, and so armed the inter-wave
\* timer, ended with the player destroyed by an asteroid and the timer cancelled
C12_Witness ==
    /\ playerDestroyed /\ hitCalls = 0 /\ wave = 2 /\ enemies = <<>>
    /\ \E c \in DOMAIN calls : calls[c].by = "hit"
    /\ ~fireEnabled /\ ~active /\ NoTimerPending

\* C12 as stated: while the player is destroyed fire stays disabled, the squadron
\* inactive and no timer pending
C12_AllOffWhileDestroyed == playerDestroyed => (~fireEnabled /\ ~active /\ NoTimerPending)

\* The game without gunnery hits: adversaries fire but miss, the player does not
\* fire, and adversaries and player are lost to asteroids or to the developer's
\* explosion button. The frame time divides both timer delays.
LiveDeltas == {2500}

Calm ==
    [deltas |-> LiveDeltas, all |-> FALSE, cap |-> MaxGameBullets, reach |-> 0,
     near |-> 0, together |-> FALSE, hitWaves |-> 0, overlaps |-> 0,
     draws |-> 1, facing |-> FALSE, misses |-> FALSE, named |-> FALSE, dirs |-> Dirs, pushes |-> NoPush,
     boosts |-> {FALSE}, resets |-> {}]

CalmFrame ==
    /\ loopStarted
    /\ ~(firstWaveTimer.pending /\ firstWaveTimer.due = 0)
    /\ ~(winTimer.pending /\ winTimer.due = 0)
    /\ \E delta \in Calm.deltas :
           \E in \in FrameInputs(task(State), delta, Calm) : Becomes(frame(task(State), delta, in))

NextLive ==
    \/ StartGame
    \/ FirstWaveTimer
    \/ NextWaveTimer
    \/ CalmFrame
    \/ ExplodeEnemy
    \/ Restart

\* a timer is counting down and the animation loop is running: the next frame
\* moves the clock
TimerCounting ==
    /\ loopStarted
    /\ ~(firstWaveTimer.pending /\ firstWaveTimer.due = 0)
    /\ ~(winTimer.pending /\ winTimer.due = 0)
    /\ (firstWaveTimer.pending \/ winTimer.pending)

\* requestAnimationFrame keeps calling the loop while a timer counts down (weak
\* fairness of the frame, stated on the states where it matters), and a timer that
\* is due runs
SpecLive ==
    Init /\ [][NextLive]_vars
         /\ ([]<>~TimerCounting \/ []<><<CalmFrame>>_vars)
         /\ WF_vars(FirstWaveTimer) /\ WF_vars(NextWaveTimer)

\* what restartGame leaves behind, r being the state it returns
Restarted(r) ==
    /\ r.wave = 1
    /\ Composition(r.enemies) = <<1, 0>>
    /\ \A k \in DOMAIN r.enemies :
           r.enemies[k].health = archetypes[Fighter].health /\ r.enemies[k].approachProgress = FZero
    /\ r.bullets = <<>>
    /\ ~r.playerDestroyed /\ r.playerHealth = maxHealth
    /\ ~r.winTimer.pending
    /\ r.gameStarted /\ r.resultShown = ""
    /\ r.firstWaveTimer.pending /\ r.firstWaveTimer.due = FirstWaveDelay

\* the retry button has just been clicked: the squadron was reset and the first-wave
\* timer armed in the same task
JustRestarted == Steps(trace, "reset") # {} /\ firstWaveTimer.pending

NextWaveSpawned == Steps(trace', "reset") # {} /\ wave' > 1

\* C14: clearing a non-final wave arms the inter-wave timer at 10 s; while it is
\* pending its remaining time changes only by the frame time that passes, the
\* squadron is empty, and adversaries of a later wave appear only in the step of the
\* timer's callback, which runs when no time remains and leaves the squadron
\* active with fire enabled; a pending timer is given up only when the player is
\* destroyed or the game restarted, and otherwise leads to that spawn.
C14_SpawnAfterDelay ==
    /\ [][(wave < 6 /\ Clears /\ ~playerDestroyed')
             => winTimer'.pending /\ winTimer'.due = NextWaveDelay]_vars
    /\ [][(winTimer.pending /\ winTimer'.pending)
             => \/ winTimer' = winTimer
                \/ \E delta \in GameDeltas \cup LiveDeltas :
                       winTimer' = [winTimer EXCEPT !.due = Max(0, @ - delta)]]_vars
    /\ [](winTimer.pending => enemies = <<>> /\ wave > 1)
    /\ [][((enemies = <<>> /\ enemies' # <<>> /\ wave' > 1) \/ NextWaveSpawned)
             => /\ winTimer.pending /\ winTimer.due = 0 /\ ~winTimer'.pending
                /\ NextWaveSpawned /\ enemies = <<>>
                /\ Composition(enemies') = <<winTimer.fighters, winTimer.interceptors>>
                /\ active' /\ fireEnabled']_vars
    /\ [][(winTimer.pending /\ ~winTimer'.pending)
             => NextWaveSpawned \/ playerDestroyed' \/ Steps(trace', "reset") # {}]_vars
    /\ [](winTimer.pending
             => <>((~winTimer.pending /\ active /\ enemies # <<>> /\ wave > 1) \/ playerDestroyed))

\* the game is running with the player alive, no adversary and no timer that would
\* bring one: the first wave was cleared before the controls modal was closed
C14_Witness ==
    /\ loopStarted /\ gameStarted /\ ~playerDestroyed /\ resultShown = ""
    /\ enemies = <<>> /\ wave = 1 /\ ~winTimer.pending /\ active

\* C15: the squadron of a later wave goes from inactive to active only in the step
\* of the inter-wave timer's callback, and that step leaves it active with the
\* player's health at the configured maximum, whatever it was before.
C15_FullHealthAtActivation ==
    /\ [][NextWaveSpawned => active' /\ playerHealth' = maxHealth]_vars
    /\ [][(~active /\ active' /\ wave' > 1 /\ enemies' # <<>>) => NextWaveSpawned]_vars

\* a later wave has just become active and the player had been damaged before
C15_Witness ==
    /\ Steps(trace, "reset") # {} /\ wave > 1 /\ active /\ enemies # <<>>
    /\ playerHealth = maxHealth
    /\ \E t \in Steps(trace, "fullyHeal") : trace[t].health < maxHealth

\* a root that matches no live adversary
NoRoots == (0..MaxRoot) \ {enemies[k].id : k \in DOMAIN enemies}

\* C16: in every reachable state debugExplodeOne on an empty squadron and
\* destroyEnemyByRoot with a root that matches no live adversary return null and
\* the state they return is the state they were given (adversaries, projectiles,
\* flags, explosions); and every explosion of a step is of an adversary that was
\* live before it.
C16_NothingToDestroy ==
    /\ [](enemies = <<>> => debugExplodeOne(State) = <<State, "null">>)
    /\ [](\A id \in NoRoots : destroyEnemyByRoot(State, id) = <<State, "null">>)
    /\ [][\A k \in DOMAIN exploded' : Live(enemies, exploded'[k]) # {}]_vars

\* an emptied squadron with projectiles of both sides in flight, and a squadron of
\* one with the root of the adversary destroyed before
C16_Witness ==
    \/ /\ enemies = <<>> /\ bullets # <<>> /\ playerBullets # <<>> /\ active
       /\ debugExplodeOne(State)[2] = "null"
       /\ destroyEnemyByRoot(State, 1)[2] = "null"
    \/ /\ Len(enemies) = 1 /\ enemies[1].id = 2 /\ bullets # <<>> /\ exploded = <<1>>
       /\ destroyEnemyByRoot(State, 1)[2] = "null"

\* list without the adversary id, the others as they were and in their order
Without(list, id) == SelectSeq(list, LAMBDA e : e.id # id)

\* C17: in every reachable state destroyEnemyByRoot with the root of a live
\* adversary returns that adversary's archetype tag and a state that differs only
\* in that the adversary is gone from the list (one entry fewer, the others
\* unchanged and in their order) and has been blown up; debugExplodeOne does so for
\* the first adversary; and in a step without reset the survivors keep their order
\* and those gone are those blown up.
C17_RemovesExactlyOne ==
    /\ [](\A k \in DOMAIN enemies :
            LET r == destroyEnemyByRoot(State, enemies[k].id)
            IN  /\ r[2] = enemies[k].type
                /\ Len(r[1].enemies) = Len(enemies) - 1
                /\ r[1] = [State EXCEPT !.enemies = Without(enemies, enemies[k].id),
                                        !.exploded = Append(exploded, enemies[k].id)])
    /\ [](enemies # <<>> =>
            LET r == debugExplodeOne(State)
            IN  /\ r[2] = enemies[1].type
                /\ r[1] = [State EXCEPT !.enemies = Tail(enemies),
                                        !.exploded = Append(exploded, enemies[1].id)])
    /\ [][Steps(trace', "reset") = {} =>
            /\ [k \in DOMAIN enemies' |-> enemies'[k].id] =
                   [k \in DOMAIN enemies' |->
                       SelectSeq(enemies, LAMBDA e : e.id \notin Range(exploded'))[k].id]
            /\ Len(enemies') = Len(enemies) - Len(exploded')]_vars

\* the second of two adversaries, an interceptor, has just been destroyed by its
\* root alone: the fighter before it is still first
C17_Witness ==
    /\ exploded = <<2>> /\ calls = <<>> /\ trace = <<>>
    /\ Len(enemies) = 1 /\ enemies[1].id = 1 /\ enemies[1].type = Fighter
    /\ bullets # <<>>

\* the overlaps of one hit pass in the current state: pairs <<adversary id, player
\* projectile id>>, several projectiles on one adversary and one projectile on
\* several adversaries among them
HitOverlaps ==
    SubsetsUpTo({enemies[k].id : k \in DOMAIN enemies} \X {playerBullets[k].id : k \in DOMAIN playerBullets},
                MaxOverlaps)

\* the health the adversary id lost between list and the state r (an adversary
\* gone from r has lost all it had)
Loss(r, e) ==
    IF \E k \in DOMAIN r.enemies : r.enemies[k].id = e.id
    THEN e.health - r.enemies[CHOOSE k \in DOMAIN r.enemies : r.enemies[k].id = e.id].health
    ELSE e.health

\* C18: in every reachable state and for every set of overlaps, one pass of
\* handlePlayerHitsEnemies takes at most 1 health from an adversary, takes it only
\* from one that a projectile overlaps, and spares such an adversary only when the
\* projectiles that overlap it were used up on others; it removes exactly as many
\* projectiles as adversaries were hit, each of them one that overlapped, and
\* leaves the other projectiles in their order; and across a tick no adversary
\* loses more than 1.
C18_OneHitPerTick ==
    /\ [](\A overlap \in HitOverlaps :
            LET r == handlePlayerHitsEnemies(State, overlap, Probe)
                gone == {b.id : b \in Range(playerBullets)} \ {b.id : b \in Range(r.playerBullets)}
                hit == {e \in Range(enemies) : Loss(r, e) # 0}
            IN  /\ \A e \in Range(enemies) :
                       /\ Loss(r, e) \in {0, 1}
                       /\ Loss(r, e) = 1 => \E pair \in overlap : pair[1] = e.id
                       /\ Loss(r, e) = 0 => \A pair \in overlap : pair[1] = e.id => pair[2] \in gone
                /\ Cardinality(gone) = Cardinality(hit)
                /\ \A b \in gone : \E pair \in overlap : pair[2] = b
                /\ r.playerBullets = SelectSeq(playerBullets, LAMBDA b : b.id \notin gone))
    /\ [][Steps(trace', "handlePlayerHitsEnemies") # {} =>
            \A k \in DOMAIN enemies :
                /\ \A m \in Live(enemies', enemies[k].id) : enemies'[m].health >= enemies[k].health - 1
                /\ Live(enemies', enemies[k].id) = {} => enemies[k].health = 1]_vars

\* two projectiles overlap the first adversary, which has health to spare: the pass
\* takes 1 health and one projectile; and one projectile overlaps two adversaries:
\* only one of them is hit
C18_Witness ==
    /\ Len(enemies) = 2 /\ Len(playerBullets) >= 2 /\ enemies[1].health >= 2
    /\ LET b1 == playerBullets[1].id
           b2 == playerBullets[2].id
           r == handlePlayerHitsEnemies(State, {<<enemies[1].id, b1>>, <<enemies[1].id, b2>>}, Probe)
           q == handlePlayerHitsEnemies(State, {<<enemies[1].id, b1>>, <<enemies[2].id, b1>>}, Probe)
       IN  /\ r.enemies[1].health = enemies[1].health - 1
           /\ Len(r.playerBullets) = Len(playerBullets) - 1
           /\ Len(q.playerBullets) = Len(playerBullets) - 1
           /\ {e \in Range(enemies) : Loss(q, e) = 1} # {}

\* the loads a trace tells of
Loads(tr) == Steps(tr, "loadPrefabForType")

\* C19: the adversaries of a squadron are of archetypes whose model is loaded, and
\* while a model is missing the squadron is empty; a tick in that state, active
\* or not, is carried out and leaves it so; a load is attempted only within init
\* or reset, which then tries exactly the models still missing, each once, and
\* keeps those that load; and a failed load leaves the squadron without
\* adversaries and inactive.
C19_LoadFailure ==
    /\ [](\A k \in DOMAIN enemies : prefabs[enemies[k].type])
    /\ [](Rejected(State) => enemies = <<>>)
    /\ [](Rejected(State) =>
            \A delta \in CombatDeltas, a \in BOOLEAN :
                LET r == update(setActive(task(State), a), delta, <<>>, {}, {}, Probe)
                IN  /\ r.enemies = <<>> /\ r.prefabs = prefabs
                    /\ Loads(r.trace) = {} /\ r.calls = <<>> /\ r.hitCalls = 0)
    /\ [][(Loads(trace') # {} \/ prefabs' # prefabs) => Steps(trace', "reset") # {}]_vars
    /\ [][Steps(trace', "reset") # {} =>
            \A type \in EnemyType :
                /\ prefabs'[type] = (prefabs[type] \/ assets[type])
                /\ Cardinality({t \in Loads(trace') : trace'[t].type = type}) =
                       IF prefabs[type] THEN 0 ELSE 1
                /\ \A t \in Loads(trace') :
                       trace'[t].type = type => trace'[t].ok = assets[type]]_vars
    /\ [][(\E t \in Loads(trace') : ~trace'[t].ok) => enemies' = <<>> /\ ~active']_vars

\* a reset has just loaded the interceptor's model alone and spawned its squadron:
\* the fighter's model was loaded by an earlier init or reset in which the
\* interceptor's failed
C19_Witness ==
    /\ Steps(trace, "reset") # {} /\ enemies # <<>>
    /\ \A type \in EnemyType : prefabs[type]
    /\ Loads(trace) # {} /\ \A t \in Loads(trace) : trace[t].type = Interceptor /\ trace[t].ok

\* C20: in every reachable state, update on the squadron made inactive, with the
\* steering, the projectiles near the player and the overlaps that a tick of the
\* active squadron would meet, returns the state it was given: adversaries (place,
\* facing, approach progress, fire clock), projectiles of both sides, health and
\* flags as they were, no step taken and no callback invoked; and a step of an
\* inactive squadron other than reset, explosion or activation leaves adversaries
\* and projectiles as they were (lastShot is kept relative to now, so the time
\* that passes moves it into the past).
C20_InactiveUpdate ==
    /\ [](\A delta \in CombatDeltas :
            LET s == setActive(task(State), FALSE)
            IN  \A in \in UpdateInputs(setActive(s, TRUE), delta, Combat) :
                    update(s, delta, in.steer, in.near, in.overlap, Probe) = s)
    /\ [][(~active /\ ~active' /\ Steps(trace', "reset") = {} /\ exploded' = <<>>) =>
            /\ enemies' = [k \in DOMAIN enemies |->
                              [enemies[k] EXCEPT !.lastShot = enemies'[k].lastShot]]
            /\ \A k \in DOMAIN enemies : enemies'[k].lastShot <= enemies[k].lastShot
            /\ bullets' = bullets /\ trace' = <<>> /\ calls' = <<>> /\ hitCalls' = 0]_vars

\* an inactive squadron of two with a projectile of the player that overlaps one of
\* them: the tick that would hit it when active does nothing
C20_Witness ==
    /\ ~active /\ Len(enemies) = 2 /\ playerBullets # <<>> /\ trace = <<>>
    /\ \E delta \in CombatDeltas :
           \E in \in UpdateInputs(setActive(State, TRUE), delta, Combat) :
               /\ in.overlap # {}
               /\ update(State, delta, in.steer, in.near, in.overlap, Probe) = State
               /\ update(setActive(State, TRUE), delta, in.steer, in.near, in.overlap, Probe).enemies # enemies

\* C21: every adversary's approach progress lies in [0, 1]; in a step without
\* reset an adversary that stays in the list has at least the progress it had,
\* and the progress it had if that was 1.
C21_ProgressMonotone ==
    /\ [](\A k \in DOMAIN enemies :
            /\ ~FLess(enemies[k].approachProgress, FZero)
            /\ ~FLess(FOne, enemies[k].approachProgress))
    /\ [][Steps(trace', "reset") = {} =>
            \A k \in DOMAIN enemies : \A m \in Live(enemies', enemies[k].id) :
                /\ ~FLess(enemies'[m].approachProgress, enemies[k].approachProgress)
                /\ enemies[k].approachProgress = FOne => enemies'[m].approachProgress = FOne]_vars

\* an adversary has just been moved in its approach for the second time at least
\* and is part of the way
C21_Witness ==
    \E t \in Steps(trace, "updateMovement") : \E k \in Live(enemies, trace[t].id) :
        /\ FLess(FZero, enemies[k].approachProgress)
        /\ FLess(enemies[k].approachProgress, FOne)
        /\ \E d1, d2 \in Deltas : enemies[k].approachTime = d1 + d2

\* the squadron as tryShoot meets it delta ms after the current state: lastShot is
\* relative to that tick's now
AtTick(delta) == playerUpdateBullets(elapse(task(State), delta), delta)

\* is the fire delay one that the archetype's range allows
InRange(enemy) ==
    /\ archetypes[enemy.type].fireDelayRange[1] <= enemy.fireDelay
    /\ enemy.fireDelay <= archetypes[enemy.type].fireDelayRange[2]

\* C22: whatever tick follows a reachable state, an adversary that fires in it
\* does so at least its current fire delay after its lastShot; lastShot and the
\* fire delay are written only by a shot (lastShot becomes now, the delay is drawn
\* anew), so the delay in force is the one drawn at the previous shot or at spawn;
\* every adversary's fire delay lies in its archetype's range, which is
\* [800, 1350] ms for the fighter and [700, 1200] ms for the interceptor; and with
\* fire disabled a tick leaves lastShot and the fire delay of every adversary.
C22_FireDelay ==
    /\ [](\A delta \in Deltas :
            LET s0 == AtTick(delta)
            IN  \A in \in UpdateInputs(s0, delta, Timing) :
                    LET r == update(s0, delta, in.steer, in.near, in.overlap, Probe)
                    IN  \A t \in Steps(r.trace, "tryShoot") : \A k \in Live(s0.enemies, r.trace[t].id) :
                            IF r.trace[t].fired
                            THEN /\ 0 - s0.enemies[k].lastShot >= s0.enemies[k].fireDelay
                                 /\ \A m \in Live(r.enemies, r.trace[t].id) :
                                        r.enemies[m].lastShot = 0 /\ InRange(r.enemies[m])
                            ELSE \A m \in Live(r.enemies, r.trace[t].id) :
                                     /\ r.enemies[m].lastShot = s0.enemies[k].lastShot
                                     /\ r.enemies[m].fireDelay = s0.enemies[k].fireDelay)
    /\ [](\A k \in DOMAIN enemies : InRange(enemies[k]))
    /\ [](archetypes[Fighter].fireDelayRange = <<800, 1350>>
            /\ archetypes[Interceptor].fireDelayRange = <<700, 1200>>)
    /\ [][(~fireEnabled /\ Steps(trace', "tryShoot") # {}) =>
            /\ \A t \in Steps(trace', "tryShoot") : ~trace'[t].fired /\ trace'[t].kept
            /\ \A k \in DOMAIN enemies : \A m \in Live(enemies', enemies[k].id) :
                   /\ enemies'[m].fireDelay = enemies[k].fireDelay
                   /\ \E delta \in Deltas :
                          enemies'[m].lastShot = Max(0 - Horizon, enemies[k].lastShot - delta)]_vars

\* an adversary in position that fired 1 s ago and drew the longest delay: the
\* tick 0.5 s later finds 1.5 s gone and it may fire, and its new lastShot is that
\* tick's now
C22_Witness ==
    /\ active /\ fireEnabled /\ Len(enemies) = 1
    /\ enemies[1].approachProgress = FOne /\ enemies[1].lastShot = 0 - 1000
    /\ enemies[1].fireDelay = archetypes[enemies[1].type].fireDelayRange[2]
    /\ \E in \in UpdateInputs(AtTick(500), 500, Timing) :
           LET r == update(AtTick(500), 500, in.steer, in.near, in.overlap, Probe)
           IN  \E t \in Steps(r.trace, "tryShoot") : r.trace[t].fired /\ r.enemies[1].lastShot = 0
    /\ \A in \in UpdateInputs(State, 0, Timing) :
           LET r == update(task(State), 0, in.steer, in.near, in.overlap, Probe)
           IN  \A t \in Steps(r.trace, "tryShoot") : ~r.trace[t].fired

\* the projectiles of a list that one tick of delta ms has advanced since they
\* were spawned
FreshBullets(list, type, delta) ==
    {k \in DOMAIN list : list[k].life = archetypes[type].bulletLife - delta}

\* C23: an adversary that fires appends to the projectile list one projectile per
\* muzzle offset of its archetype, 2 for a fighter and 4 for an interceptor, each
\* with the archetype's projectile lifetime and the k-th with the miss decision
\* drawn for the k-th muzzle, whatever the draws are; and a tick in which the
\* adversary fired leaves that many projectiles one tick old.
C23_OnePerMuzzle ==
    /\ [](archetypes[Fighter].muzzleOffsets = 2 /\ archetypes[Interceptor].muzzleOffsets = 4)
    /\ [](\A i \in DOMAIN enemies :
            Fires(State, enemies[i], AimThreshold) =>
                LET a == archetypes[enemies[i].type]
                IN  \A miss \in [1..a.muzzleOffsets -> BOOLEAN] :
                        LET r == tryShoot(task(State), i, AimThreshold, enemies[i].fireDelay, miss, TRUE)
                        IN  /\ Len(r.bullets) = Len(bullets) + a.muzzleOffsets
                            /\ SubSeq(r.bullets, 1, Len(bullets)) = bullets
                            /\ \A k \in 1..a.muzzleOffsets :
                                   LET b == r.bullets[Len(bullets) + k]
                                   IN  /\ b.life = a.bulletLife /\ b.miss = miss[k]
                                       /\ \A j \in DOMAIN r.bullets :
                                              r.bullets[j].id = b.id => j = Len(bullets) + k)
    /\ [][\A t \in Steps(trace', "tryShoot") : \A k \in Live(enemies, trace'[t].id) :
            \E delta \in CombatDeltas :
                Cardinality(FreshBullets(bullets', enemies[k].type, delta)) =
                    IF trace'[t].fired THEN archetypes[enemies[k].type].muzzleOffsets ELSE 0]_vars

\* an interceptor has just fired its four muzzles, and the volley holds a miss
\* next to an aimed projectile and two of a kind
C23_Witness ==
    /\ Len(enemies) = 1 /\ enemies[1].type = Interceptor
    /\ \E t \in Steps(trace, "tryShoot") : trace[t].fired
    /\ Len(bullets) = 4
    /\ bullets[1].miss /\ ~bullets[2].miss /\ ~bullets[3].miss /\ bullets[4].miss
    /\ \A k \in DOMAIN bullets : k \in FreshBullets(bullets, Interceptor, 1500)

\* the ids a named projectile can carry
BulletIds == 1..(MaxBullets + archetypes[Interceptor].muzzleOffsets)

\* is the projectile named id on the squadron's list
InFlight(list, id) == \E k \in DOMAIN list : list[k].id = id

\* C24: no projectile on the squadron's list has a lifetime <= 0; a projectile leaves
\* the list only in a reset or in a tick of the active squadron, and in such a tick
\* the projectiles that stay have aged by the tick's delta and those that left
\* before their lifetime ran out are no more than the hits reported to the player;
\* and while active ticks keep occurring every projectile in flight is eventually
\* off the list.
C24_ProjectilesEnd ==
    /\ [](\A k \in DOMAIN bullets : bullets[k].life > 0)
    /\ [][LET gone == {k \in DOMAIN bullets : ~InFlight(bullets', bullets[k].id)}
          IN  gone # {} =>
                \/ Steps(trace', "reset") # {}
                \/ /\ active /\ Steps(trace', "updateBullets") # {}
                   /\ \E delta \in Flight.deltas :
                        /\ \A k \in DOMAIN bullets \ gone :
                              \E j \in DOMAIN bullets' :
                                  bullets'[j] = [bullets[k] EXCEPT !.life = @ - delta]
                        /\ Cardinality({k \in gone : bullets[k].life > delta}) <= hitCalls']_vars
    /\ \A id \in BulletIds : InFlight(bullets, id) ~> ~InFlight(bullets, id)

\* a tick has just reported a hit to the player, and of the projectiles still in
\* flight one is a tick from the end of its lifetime and another is not
C24_Witness ==
    /\ active /\ Steps(trace, "updateBullets") # {} /\ hitCalls = 1
    /\ \E delta \in Flight.deltas :
           LET r == updateBullets(State, delta)
           IN  0 < Len(r.bullets) /\ Len(r.bullets) < Len(bullets)

\* the elements of a list at the indices outside a set, in the list's order
RECURSIVE Outside(_, _, _)
Outside(list, near, k) ==
    IF k = 0 THEN <<>>
    ELSE IF k \in near THEN Outside(list, near, k - 1)
    ELSE Append(Outside(list, near, k - 1), list[k])

\* C25: whichever projectiles lie within the player's hit radius, and whether the
\* callback is the game's (which may destroy the player half-way through) or one
\* that leaves the state alone, handleEnemyHitsPlayer removes exactly those
\* projectiles, leaves the others as they were and in their order, and invokes
\* onPlayerHit once for each: the invocations equal the removals.
C25_HitsReported ==
    [](\A near \in SUBSET (DOMAIN bullets), on \in {Main, Probe} :
          LET r == handleEnemyHitsPlayer(task(State), near, on)
          IN  /\ r.bullets = Outside(bullets, near, Len(bullets))
              /\ r.hitCalls = Cardinality(near)
              /\ r.hitCalls = Len(bullets) - Len(r.bullets))

\* two projectiles are in flight and the player, mortal, has no more health than one
\* hit takes: the pass that finds both within the radius destroys the player at
\* the first and still reports the second
C25_Witness ==
    /\ Len(bullets) = 2 /\ ~immortal /\ ~playerDestroyed
    /\ LET r == handleEnemyHitsPlayer(task(State), {1, 2}, Main)
       IN  r.playerDestroyed /\ r.hitCalls = 2 /\ r.bullets = <<>>

\* a projectile list after each element has aged by delta once, those whose
\* lifetime has run out dropped
Aged(list, delta) ==
    SelectSeq([k \in DOMAIN list |-> [list[k] EXCEPT !.life = @ - delta]], LAMBDA b : b.life > 0)

\* C26: each of the three passes that remove while they iterate treats every element
\* of its list once. The expiry pass, of either side, leaves exactly the list in
\* which each projectile has aged by delta once and those at lifetime <= 0 are
\* gone, runs of neighbours that expire together included; the pass of adversary
\* projectiles against the player removes exactly the projectiles in reach,
\* neighbours included; and the pass of player projectiles against adversaries
\* takes from no adversary more than 1 health and passes over no adversary that a
\* projectile still in flight overlaps, also where adversaries next to each other
\* in the list are destroyed in the same pass.
C26_EachElementOnce ==
    /\ [](\A delta \in Deltas :
            /\ updateBullets(task(State), delta).bullets = Aged(bullets, delta)
            /\ playerUpdateBullets(task(State), delta).playerBullets = Aged(playerBullets, delta))
    /\ [](\A near \in SUBSET (DOMAIN bullets) :
            LET r == handleEnemyHitsPlayer(task(State), near, Probe)
            IN  /\ Len(r.bullets) = Len(bullets) - Cardinality(near)
                /\ \A k \in DOMAIN bullets \ near :
                       r.bullets[k - Cardinality({m \in near : m < k})] = bullets[k])
    /\ [](\A overlap \in HitOverlaps :
            LET r == handlePlayerHitsEnemies(task(State), overlap, Probe)
                left == {b.id : b \in Range(r.playerBullets)}
            IN  /\ \A e \in Range(enemies) :
                       /\ Loss(r, e) \in {0, 1}
                       /\ Loss(r, e) = 0 => \A pair \in overlap : pair[1] = e.id => pair[2] \notin left
                /\ Len(r.calls) = Len(enemies) - Len(r.enemies))

\* four adversary projectiles are in flight, the two older ones, neighbours in the
\* list, expiring in the same pass and the two younger ones ageing; and two
\* adversaries next to each other, each a hit from destruction, are overlapped by
\* one player projectile each: one pass destroys both
C26_Witness ==
    /\ Len(bullets) = 4
    /\ \E delta \in Deltas :
           LET r == updateBullets(task(State), delta)
           IN  Len(r.bullets) = 2 /\ r.bullets[1].life = bullets[3].life - delta
    /\ Len(enemies) = 2 /\ enemies[1].health = 1 /\ enemies[2].health = 1
    /\ Len(playerBullets) >= 2
    /\ LET r == handlePlayerHitsEnemies(task(State),
                    {<<enemies[1].id, playerBullets[1].id>>, <<enemies[2].id, playerBullets[2].id>>}, Probe)
       IN  r.enemies = <<>> /\ Len(r.calls) = 2

Defeat == resultShown = "Przegrana"

\* C27: no step takes the session from the victory result to the defeat result:
\* after Victory the result stays until a restart clears it.
C27_VictoryFinal == [][Victory => ~Defeat']_vars

\* the victory result is shown, the player is alive and the animation loop keeps
\* running its asteroid pass
C27_Witness ==
    /\ Victory /\ ~playerDestroyed /\ loopStarted
    /\ \E c \in Contacts(State, Coarse) :
           Len(c) = 1 /\ c[1].player /\ handleAsteroidCollisions(task(State), c).resultShown = "Przegrana"

\* the ways the last adversary of a wave can go
Paths == {"hit", "asteroid", "debug"}

\* C28: the wave counter is one of 1..6; a step leaves it, adds 1 to it or sets it
\* to 1. It adds 1 only in a step that destroys the last adversary; it falls to 1
\* only in a start or restart, which arms the first-wave timer and leaves no
\* inter-wave timer. A step that destroys the last adversary while the player lives,
\* by a player projectile, an asteroid or the developer's button, adds exactly 1
\* below wave 6 and shows the victory at wave 6; the one inter-wave timer it
\* leaves pending holds the table entry of the new wave at the full delay.
C28_WaveCounter ==
    /\ [](wave \in 1..6)
    /\ [][/\ wave' \in {wave, wave + 1, 1}
          /\ wave' = wave + 1 => Clears
          /\ (wave' = 1 /\ wave # 1) =>
                gameStarted' /\ firstWaveTimer'.pending /\ ~winTimer'.pending
          /\ (Clears /\ ~playerDestroyed') =>
                /\ calls'[Len(calls')].by \in Paths
                /\ IF wave < 6
                   THEN /\ wave' = wave + 1
                        /\ winTimer' = Timeout(NextWaveDelay, WaveTable[wave'][1], WaveTable[wave'][2])
                   ELSE wave' = wave /\ Victory' /\ ~winTimer'.pending]_vars

\* an asteroid has just destroyed the last adversary of wave 2: the counter stands
\* at 3 and the timer holds wave 3
C28_Witness ==
    /\ wave = 3 /\ enemies = <<>> /\ ~playerDestroyed
    /\ Len(calls) = 1 /\ calls[1].by = "asteroid"
    /\ winTimer = Timeout(NextWaveDelay, 3, 0)

\* every adversary that is spawned is eventually destroyed
AllDestroyed == [](enemies # <<>> => <>(enemies = <<>>))

\* C29: with the player never destroyed and every spawned adversary eventually
\* destroyed, a game that has been started eventually shows the victory result; and
\* the victory result is shown only at wave 6, the counter having moved there one
\* clear at a time.
C29_VictoryEventually ==
    /\ ([]~playerDestroyed /\ AllDestroyed) => [](gameStarted => <>Victory)
    /\ [](Victory => wave = 6 /\ enemies = <<>>)

\* the game has been started and is running with the player alive, no adversary, no
\* timer pending and no result: nothing is left that would bring a wave
C29_Witness ==
    /\ loopStarted /\ gameStarted /\ ~playerDestroyed /\ resultShown = ""
    /\ enemies = <<>> /\ ~winTimer.pending /\ ~firstWaveTimer.pending /\ wave < 6

\* where an adversary is and how it is turned
Transform(e) == <<e.position, e.orientation>>

\* do the adversaries of list that are still in r stand and face as in list
SameTransforms(r, list) ==
    \A k \in DOMAIN list : \A m \in Live(r.enemies, list[k].id) :
        Transform(r.enemies[m]) = Transform(list[k])

\* C30: fire control, whether or not it fires, the projectile advance and both hit
\* passes leave the position and the orientation of every adversary that stays in
\* the squadron as they found them; across a tick of the active squadron each
\* adversary's position is written once and its orientation once, by its own
\* updateMovement and updateOrientation, and a step that is no such tick writes
\* neither.
C30_TransformOwned ==
    /\ [](\A i \in DOMAIN enemies, aim \in AimDots, named \in BOOLEAN :
            \A miss \in [1..archetypes[enemies[i].type].muzzleOffsets -> BOOLEAN] :
                SameTransforms(tryShoot(State, i, aim, enemies[i].fireDelay, miss, named), enemies))
    /\ [](\A delta \in Deltas : updateBullets(State, delta).enemies = enemies)
    /\ [](\A near \in SUBSET (DOMAIN bullets), on \in {Main, Probe} :
            SameTransforms(handleEnemyHitsPlayer(State, near, on), enemies))
    /\ [](\A overlap \in HitOverlaps, on \in {Main, Probe} :
            SameTransforms(handlePlayerHitsEnemies(State, overlap, on), enemies))
    /\ [][\A k \in DOMAIN enemies' :
            Transform(enemies'[k]) =
                IF Steps(trace', "updateBullets") # {} /\ Steps(trace', "reset") = {}
                THEN <<1, 1>> ELSE <<0, 0>>]_vars

\* a tick in which an adversary fired, a projectile reached the player and a player
\* projectile destroyed another adversary: the one that fired has been moved once
\* and turned once
C30_Witness ==
    /\ hitCalls >= 1 /\ \E c \in Range(calls) : c.by = "hit"
    /\ \E t \in Steps(trace, "tryShoot") :
           /\ trace[t].fired
           /\ \E k \in Live(enemies, trace[t].id) : Transform(enemies[k]) = <<1, 1>>

\* C31: every spawned adversary has a bounding radius above 0, whatever model the
\* loader returned for its archetype.
C31_RadiusPositive == \A k \in DOMAIN enemies : enemies[k].boundingRadius > 0

\* adversaries spawned from a prefab of a model that has a size, scaled to the
\* archetype's silhouette: their radius is 0.6 * sizeTarget
C31_Witness ==
    /\ enemies # <<>>
    /\ \A k \in DOMAIN enemies :
           /\ models[enemies[k].type] # <<0, 0, 0>>
           /\ enemies[k].boundingRadius = 6 * archetypes[enemies[k].type].sizeTarget

Abs(x) == IF x < 0 THEN 0 - x ELSE x

RECURSIVE Resumed(_, _)
Resumed(s, id) ==
    IF \A k \in DOMAIN s.inits : s.inits[k].id # id THEN s
    ELSE LET call == s.inits[CHOOSE k \in DOMAIN s.inits : s.inits[k].id = id]
             types == buildSpawnList(call.count, call.interceptors)
             type == CHOOSE t \in call.waiting : TRUE
         IN  Resumed(loadSettled(s, id, type, [k \in DOMAIN types |-> 0],
                                 [k \in DOMAIN types |-> archetypes[types[k]].fireDelayRange[1]]),
                     id)

C34_DefeatFreezesWaves ==
    /\ [](playerDestroyed => ~winTimer.pending)
    /\ [][(playerDestroyed /\ playerDestroyed') => wave' = wave]_vars
    /\ [][(~playerDestroyed /\ playerDestroyed' /\ ~immortal /\ hitCalls' > 0
             /\ playerHealth <= hitCalls' * (maxHealth \div 20)) => wave' = wave]_vars

\* the last adversary has just been blown up by the debug trigger with the player
\* destroyed: the wave counter is where the defeat left it and nothing is scheduled
C34_Witness ==
    /\ playerDestroyed
    /\ enemies = <<>>
    /\ \E c \in DOMAIN calls : calls[c].by = "debug"
    /\ wave = 1
    /\ ~winTimer.pending

\* C35: a task runs handlePlayerDestroyed at most once, and only if it found the
\* player alive and leaves it destroyed; a destroyed player stays destroyed until
\* the restart; and on a destroyed player neither a hit nor an asteroid contact
\* changes anything.
C35_DefeatOnce ==
    /\ [][defeatCalls' > 0 => (~playerDestroyed /\ playerDestroyed' /\ defeatCalls' = 1)]_vars
    /\ [][(playerDestroyed /\ ~playerDestroyed') =>
             (Steps(trace', "reset") # {} /\ firstWaveTimer'.pending)]_vars
    /\ [](playerDestroyed =>
             /\ onPlayerHit(State) = noteHit(State)
             /\ collide(State, [player |-> TRUE, enemy |-> 0]) = State)

\* the player is one hit from destruction with two projectiles on their way: in the
\* frame in which both reach it, the first destroys it and the second hits a
\* destroyed player; the defeat is taken once
C35_Witness ==
    /\ playerHealth = maxHealth \div 20 /\ ~playerDestroyed /\ ~immortal
    /\ \E delta \in GameDeltas : \E in \in FrameInputs(task(State), delta, Barrage) :
           LET r == frame(task(State), delta, in)
           IN  /\ Cardinality(in.near) = 2
               /\ r.hitCalls = 2
               /\ r.defeatCalls = 1
               /\ r.playerDestroyed /\ r.resultShown = "Przegrana"

\* the steps of EnemySquadron.update past its check of this.active
TickSteps ==
    {"updateMovement", "updateOrientation", "tryShoot", "updateBullets",
     "handleEnemyHitsPlayer", "handlePlayerHitsEnemies"}

\* C36: the task that arms the first-wave timer leaves the squadron inactive with
\* fire disabled. While the timer is pending the squadron is inactive, no adversary
\* is moved, turned, asked to fire or hit by a projectile, no projectile is created
\* or hits, and fireEnabled changes only when the developer's enemy-fire button is
\* clicked. When the timer fires the squadron is active with fire enabled. While a
\* result is shown (and so while the player is destroyed) the squadron is inactive
\* and no first-wave timer is pending. No timeout goes on counting that main.ts
\* cannot clear any more: at most one first-wave and one inter-wave timer are
\* pending.
C36_InactiveUntilFirstWave ==
    /\ [][(~firstWaveTimer.pending /\ firstWaveTimer'.pending) => (~active' /\ ~fireEnabled')]_vars
    /\ [](firstWaveTimer.pending => ~active)
    /\ [][(firstWaveTimer.pending /\ firstWaveTimer'.pending) =>
             /\ \A t \in DOMAIN trace' : trace'[t].op \notin TickSteps
             /\ hitCalls' = 0
             /\ \A c \in DOMAIN calls' : calls'[c].by # "hit"
             /\ bullets' = bullets
             /\ fireEnabled' # fireEnabled => fireBtnActive' # fireBtnActive]_vars
    /\ [][(firstWaveTimer.pending /\ ~firstWaveTimer'.pending /\ firstWaveTimer'.set)
             => (active' /\ fireEnabled' /\ resultShown = "" /\ ~playerDestroyed)]_vars
    /\ []((resultShown # "" \/ playerDestroyed) =>
             (resultShown # "" /\ ~active /\ ~firstWaveTimer.pending))
    /\ [](orphans = 0)

\* the first-wave timer has fired on a fighter that has not been moved since the
\* start, after a frame and a click on the enemy-fire button: the squadron is
\* active with fire enabled
C36_Witness ==
    /\ gameStarted /\ firstWaveTimer.set /\ ~firstWaveTimer.pending
    /\ active /\ fireEnabled /\ ~fireBtnActive
    /\ Len(enemies) = 1 /\ enemies[1].approachTime = 0
    /\ enemies[1].lastShot < 0
    /\ wave = 1

\* C36 as stated: from startGame until the first-wave timer fires the squadron is
\* inactive with fire disabled
C36_FireOffUntilFirstWave == firstWaveTimer.pending => (~active /\ ~fireEnabled)

\* the player after n more hits by adversary projectiles
RECURSIVE Hits(_, _)
Hits(s, n) == IF n = 0 THEN s ELSE Hits(onPlayerHit(s), n - 1)

\* what a hit leaves alone when it has no effect
Player(s) == <<s.playerHealth, s.playerDestroyed, s.resultShown, s.gameStarted>>

\* C37: the player's health lies in [0, maxHealth] and the player is destroyed
\* exactly when it is 0; takeDamage on a destroyed player returns false and changes
\* nothing; with immortality on a hit leaves health and destroyed as they are; with
\* immortality off a hit on a live player takes 5 % of maxHealth, and it destroys
\* the player exactly when that brings the health to 0; so of 20 hits after a full
\* heal the twentieth destroys the player and none before.
C37_PlayerHealth ==
    /\ playerHealth \in 0..maxHealth
    /\ playerDestroyed <=> playerHealth = 0
    /\ playerDestroyed =>
           \A amount \in {1, maxHealth \div 20, maxHealth} : takeDamage(State, amount) = <<State, FALSE>>
    /\ immortal => Player(onPlayerHit(State)) = Player(State)
    /\ (~immortal /\ ~playerDestroyed) =>
           LET r == onPlayerHit(State)
           IN  /\ 20 * (playerHealth - r.playerHealth) = maxHealth
               /\ r.playerDestroyed <=> r.playerHealth = 0
    /\ (~immortal /\ ~playerDestroyed) =>
           /\ \A n \in 0..19 : ~Hits(fullyHeal(State), n).playerDestroyed
           /\ Hits(fullyHeal(State), 20).playerDestroyed

\* a projectile has just hit a mortal player, who is now one hit from destruction,
\* 19 hits after the last full heal
C37_Witness ==
    /\ hitCalls > 0 /\ ~immortal /\ ~playerDestroyed
    /\ playerHealth = maxHealth \div 20
    /\ onPlayerHit(State).playerDestroyed
    /\ wave = 2

\* C38: the HUD's count of destroyed adversaries lies between 0 and the total, and
\* together with the live adversaries it makes the total: in every state, and so
\* after every destruction, whichever way the adversary went, and after every
\* respawn of the squadron.
C38_IconBookkeeping ==
    /\ 0 <= enemiesDestroyed /\ enemiesDestroyed <= enemiesTotal
    /\ enemiesDestroyed + Len(enemies) = enemiesTotal

\* in wave 3, of three fighters one has just been rammed by an asteroid after
\* another was destroyed: two icons are down, one adversary lives
C38_Witness ==
    /\ wave = 3 /\ enemiesTotal = 3 /\ enemiesDestroyed = 2 /\ Len(enemies) = 1
    /\ \E c \in DOMAIN calls : calls[c].by = "asteroid"

\* C39: the overboost reserve stays in [0, overboostBudgetMs]; it drains only in an
\* updateSpeed call with boost held, the reserve above 0 and no lock active; the
\* lock is set, to the full cooldown of 10 s, exactly in the step that brings the
\* reserve to 0; a call that finds the lock active leaves the reserve as it is;
\* and the reserve grows only in a call with boost not held and the lock expired
C39_Overboost ==
    [][/\ overboostRemainingMs' \in 0..overboostBudgetMs
       /\ overboostRemainingMs' < overboostRemainingMs
              => speedCall'.boost /\ overboostRemainingMs > 0 /\ ~speedCall'.lockActive
       /\ (overboostRemainingMs' = 0 /\ overboostRemainingMs > 0)
              => overboostLockedUntil' = overboostCooldownMs
       /\ overboostLockedUntil' > overboostLockedUntil
              => (overboostRemainingMs' = 0 /\ overboostRemainingMs > 0)
       /\ speedCall'.lockActive => overboostRemainingMs' = overboostRemainingMs
       /\ overboostRemainingMs' > overboostRemainingMs
              => ~speedCall'.boost /\ ~speedCall'.lockActive]_vars

\* the frame in which the reserve has run out with the key held, the lock set
C39_Witness ==
    /\ overboostRemainingMs = 0
    /\ overboostLockedUntil = overboostCooldownMs
    /\ speedCall.boost /\ ~speedCall.lockActive

====
